---- MODULE Spec2Model ----
(***************************************************************************)
(* State-machine model of bscreen's screen-capture and overlay pipeline.   *)
(*                                                                         *)
(*  - the capture session of src/src/wayland_screencopy.rs (Screencopy),   *)
(*    checked under SpecCapture;                                           *)
(*  - the orchestrator of src/src/main.rs (App: capture_all_screens and    *)
(*    the screencopy-frame dispatcher), checked under SpecApp;             *)
(*  - the overlay of src/src/wayland_overlay.rs (Overlay), checked under   *)
(*    SpecOverlay;                                                         *)
(*  - main.rs from the end of capture_all_screens on (overlay creation,    *)
(*    drawing, copy), checked under SpecPresent;                           *)
(*  - the buffer-params request of ScreencopyDmabuf::new, checked under    *)
(*    SpecParams;                                                          *)
(*  - the DrawBuffer of src/src/gfx.rs, checked under SpecDrawBuffer;      *)
(*  - Size::to_physical and Size::to_logical of src/src/gfx.rs, checked    *)
(*    under SpecConv;                                                      *)
(*  - egl::Context::create of src/src/egl.rs, checked under SpecEgl;       *)
(*  - gl::Shader and gl::Program of src/src/gl.rs, checked under SpecGl;   *)
(*  - the TexturePacker of src/src/texturepacker.rs, checked under         *)
(*    SpecPacker.                                                          *)
(*                                                                         *)
(* Each subsystem keeps its state in one record-valued variable; the       *)
(* handlers are operators from records to records, the actions apply them. *)
(***************************************************************************)
EXTENDS Integers, Sequences, FiniteSets, TLC

VARIABLES sc, app, ov, params, draw_buffer, conv, egl_ctx, gl_objs, packer, crops

vars == <<sc, app, ov, params, draw_buffer, conv, egl_ctx, gl_objs, packer, crops>>

\* the state of the library modules, which the session, the orchestrator and
\* the overlay leave alone
libs == <<params, draw_buffer, conv, egl_ctx, gl_objs, packer, crops>>

(***************************************************************************)
(* Option<T>: None is the empty sequence, Some(x) the one-element one.     *)
(***************************************************************************)
None == <<>>

Some(x) == <<x>>

IsSome(o) == o # <<>>

IsNone(o) == o = <<>>

Unwrap(o) == o[1]

(***************************************************************************)
(* Bounds of the model.                                                    *)
(***************************************************************************)
\* capture() calls on one session (the first capture and the re-arms)
MaxCaptures == 2

\* descriptor (linux_dmabuf) events the compositor sends for one frame
MaxDescEvents == 2

\* outputs advertised by the registry
MaxScreens == 2

\* configure events the compositor sends to one overlay
MaxConfigures == 2

(***************************************************************************)
(* Descriptor triples the compositor may advertise.                        *)
(***************************************************************************)
DRM_FORMAT_XRGB8888 == "XRGB8888"

DRM_FORMAT_OTHER == "ARGB2101010"

Formats == {DRM_FORMAT_XRGB8888, DRM_FORMAT_OTHER}

Widths == {800, 1920}

Heights == {600, 1080}

\* ScreencopyDmabufDescriptor { format, width, height }
ScreencopyDmabufDescriptor(format, width, height) ==
    [format |-> format, width |-> width, height |-> height]

Descriptors ==
    {ScreencopyDmabufDescriptor(f, w, h) : f \in Formats, w \in Widths, h \in Heights}

\* a comparison that leaves the pixel format out
DescEqSizeOnly(a, b) ==
    /\ a.width = b.width
    /\ a.height = b.height

\* #[derive(PartialEq)]: field-wise comparison of the three fields
DescEq(a, b) ==
    /\ a.format = b.format
    /\ a.width = b.width
    /\ a.height = b.height

\* what the platform does during an import (ScreencopyDmabuf::new)
ImportOutcomes == {"ok", "egl_error", "export_error", "two_planes", "null_object"}


(***************************************************************************)
(* Capture session: src/src/wayland_screencopy.rs                          *)
(*                                                                         *)
(* sc is one Screencopy object with the connection it holds:               *)
(*   state, dmabuf_desc, dmabuf      the struct's fields                   *)
(*   screencopy_manager, linux_dmabuf  conn.globals (advertised or not)    *)
(*   copies      the copy requests sent, <<frame, buffer id>> each         *)
(*   panic       "" or why the process aborted                             *)
(*   frames      the frames capture() created, with the compositor's       *)
(*               progress on each (negotiating, copying, done)             *)
(*   built       the number of imported units built so far (their ids)     *)
(*   ev          the last operation, for stating properties of one step    *)
(*   done_since_desc  a buffer_done was handled since dmabuf_desc was set  *)
(*   last_desc_event  the triple of the latest descriptor event            *)
(*   live        the GL textures, EGL images and wl_buffers that exist,    *)
(*               <<kind, id>> each, id being the unit they were made for   *)
(*   destroyed   the objects destroyed so far, in the order of destruction *)
(*   dropped     the Box<Screencopy> has been dropped                      *)
(*   ret         "" or the Err the last capture() returned                 *)
(***************************************************************************)
NoEvent == [kind |-> "none", desc |-> None, had |-> FALSE, frame |-> 0]

Event(kind, desc, had, frame) ==
    [kind |-> kind, desc |-> desc, had |-> had, frame |-> frame]

\* Screencopy::new_boxed
ScreencopyNewBoxed(screencopy_manager, linux_dmabuf) ==
    [state |-> "Pending",
     dmabuf_desc |-> None,
     dmabuf |-> None,
     screencopy_manager |-> screencopy_manager,
     linux_dmabuf |-> linux_dmabuf,
     copies |-> <<>>,
     panic |-> "",
     frames |-> <<>>,
     built |-> 0,
     ev |-> NoEvent,
     done_since_desc |-> FALSE,
     last_desc_event |-> None,
     live |-> {},
     destroyed |-> <<>>,
     dropped |-> FALSE,
     ret |-> ""]

\* ScreencopyDmabuf::new: the unit {gl_texture, egl image, wl_buffer} built
\* from the descriptor, an Err, or a panic (unimplemented!, assert!); made
\* lists the objects it created, in order, and dropped those of them that
\* the early return or the unwinding destroyed (locals: last declared first)
ScreencopyDmabufNew(linux_dmabuf, descriptor, outcome, id) ==
    LET texture == <<"gl_texture", id>>
        image == <<"egl_image", id>>
        buffer == <<"wl_buffer", id>>
    IN IF descriptor.format # DRM_FORMAT_XRGB8888
       THEN [kind |-> "panic", why |-> "unhandled fourcc format",
             made |-> <<>>, dropped |-> <<>>]
       ELSE IF outcome = "egl_error"
       THEN [kind |-> "err", why |-> "could not create egl khr image",
             made |-> <<texture>>, dropped |-> <<texture>>]
       ELSE IF outcome = "export_error"
       THEN [kind |-> "err", why |-> "could not retrieve pixel format",
             made |-> <<texture, image>>, dropped |-> <<image, texture>>]
       ELSE IF outcome = "two_planes"
       THEN [kind |-> "panic", why |-> "assertion failed: num_planes == 1",
             made |-> <<texture, image>>, dropped |-> <<image, texture>>]
       ELSE IF ~linux_dmabuf
       THEN [kind |-> "err", why |-> "linux dmabuf is not available",
             made |-> <<texture, image>>, dropped |-> <<image, texture>>]
       ELSE IF outcome = "null_object"
       THEN [kind |-> "err", why |-> "could not create linux dmabuf buffer",
             made |-> <<texture, image>>, dropped |-> <<image, texture>>]
       ELSE [kind |-> "ok",
             made |-> <<texture, image, buffer>>, dropped |-> <<>>,
             value |-> [id |-> id,
                        format |-> descriptor.format,
                        width |-> descriptor.width,
                        height |-> descriptor.height]]

\* the drop of an Option<ScreencopyDmabuf>: the fields of ScreencopyDmabuf in
\* declaration order; gl_texture and _egl_image_khr have Drop impls, wl_buffer
\* is a NonNull pointer and nothing destroys the object it points to
DropDmabuf(s) ==
    IF IsNone(s.dmabuf) THEN s
    ELSE LET id == Unwrap(s.dmabuf).id
             ops == << <<"gl_texture", id>>, <<"egl_image", id>> >>
         IN [s EXCEPT !.dmabuf = None,
                      !.destroyed = @ \o ops,
                      !.live = @ \ {ops[k] : k \in 1..Len(ops)}]

\* the objects ScreencopyDmabuf::new left behind, whatever it returned
Imported(s, r) ==
    [s EXCEPT !.live = (@ \cup {r.made[k] : k \in 1..Len(r.made)})
                          \ {r.dropped[k] : k \in 1..Len(r.dropped)},
              !.destroyed = @ \o r.dropped]

\* handle_ready
HandleReady(s) == [s EXCEPT !.state = "Ready"]

\* handle_failed
HandleFailed(s) == [s EXCEPT !.state = "Failed"]

\* handle_linux_dmabuf building the replacement at once (as main.rs does)
HandleLinuxDmabufEager(s, next_desc) ==
    IF IsSome(s.dmabuf_desc) /\ DescEq(Unwrap(s.dmabuf_desc), next_desc)
    THEN s
    ELSE LET r == ScreencopyDmabufNew(s.linux_dmabuf, next_desc, "ok", s.built + 1)
             t == Imported(DropDmabuf(s), r)
         IN IF r.kind = "ok"
            THEN [t EXCEPT !.dmabuf_desc = Some(next_desc),
                           !.dmabuf = Some(r.value),
                           !.built = @ + 1]
            ELSE [t EXCEPT !.panic = r.why]

\* handle_linux_dmabuf without `_ = screencopy.dmabuf.take()`
HandleLinuxDmabufKeepsImport(s, next_desc) ==
    IF IsSome(s.dmabuf_desc) /\ DescEq(Unwrap(s.dmabuf_desc), next_desc)
    THEN s
    ELSE [s EXCEPT !.dmabuf_desc = Some(next_desc)]

\* handle_linux_dmabuf
HandleLinuxDmabuf(s, next_desc) ==
    IF IsSome(s.dmabuf_desc) /\ DescEq(Unwrap(s.dmabuf_desc), next_desc)
    THEN s
    ELSE [DropDmabuf(s) EXCEPT !.dmabuf_desc = Some(next_desc)]

\* handle_buffer_done that imports anew whether or not a unit is present
HandleBufferDoneRebuilds(s, frame, outcome) ==
    IF IsNone(s.dmabuf_desc)
    THEN [s EXCEPT !.panic = "called Option::unwrap() on a None value"]
    ELSE LET r == ScreencopyDmabufNew(s.linux_dmabuf, Unwrap(s.dmabuf_desc),
                                      outcome, s.built + 1)
             t == Imported(DropDmabuf(s), r)
         IN IF r.kind = "ok"
            THEN [t EXCEPT !.dmabuf = Some(r.value),
                           !.built = @ + 1,
                           !.copies = Append(@, <<frame, r.value.id>>)]
            ELSE [t EXCEPT !.panic = r.why]

\* handle_buffer_done: get_or_insert_with(ScreencopyDmabuf::new(..).expect(..)),
\* then the copy request on the frame the event came from
HandleBufferDone(s, frame, outcome) ==
    IF IsSome(s.dmabuf)
    THEN [s EXCEPT !.copies = Append(@, <<frame, Unwrap(s.dmabuf).id>>)]
    ELSE IF IsNone(s.dmabuf_desc)
    THEN [s EXCEPT !.panic = "called Option::unwrap() on a None value"]
    ELSE LET r == ScreencopyDmabufNew(s.linux_dmabuf, Unwrap(s.dmabuf_desc),
                                      outcome, s.built + 1)
             t == Imported(s, r)
         IN IF r.kind = "ok"
            THEN [t EXCEPT !.dmabuf = Some(r.value),
                           !.built = @ + 1,
                           !.copies = Append(@, <<frame, r.value.id>>)]
            ELSE [t EXCEPT !.panic = r.why]

\* capture() that also puts the session back to Pending
CaptureResetsState(s) ==
    IF ~s.screencopy_manager
    THEN [s EXCEPT !.ret = "screencopy manager is not available"]
    ELSE [s EXCEPT !.state = "Pending",
                   !.ret = "",
                   !.frames = Append(@, [phase |-> "negotiating", ndesc |-> 0])]

\* capture() that does nothing and returns Ok(()) when the manager is missing
CaptureIgnoresMissingManager(s) ==
    IF ~s.screencopy_manager
    THEN [s EXCEPT !.ret = ""]
    ELSE [s EXCEPT !.ret = "",
                   !.frames = Append(@, [phase |-> "negotiating", ndesc |-> 0])]

\* Screencopy::capture: a new frame with this session as listener data
Capture(s) ==
    IF ~s.screencopy_manager
    THEN [s EXCEPT !.ret = "screencopy manager is not available"]
    ELSE [s EXCEPT !.ret = "",
                   !.frames = Append(@, [phase |-> "negotiating", ndesc |-> 0])]

ScInit ==
    \E m \in BOOLEAN, d \in BOOLEAN : sc = ScreencopyNewBoxed(m, d)

ScRunning == sc.panic = "" /\ ~sc.dropped

\* the caller issues a capture request (the first one, or a re-arm)
ScCapture ==
    /\ ScRunning
    /\ Len(sc.frames) < MaxCaptures
    /\ sc' = [Capture(sc) EXCEPT
                !.ev = Event(IF sc.screencopy_manager THEN "capture"
                             ELSE "capture_unavailable", None,
                             IsSome(sc.dmabuf), Len(sc.frames) + 1)]
    /\ UNCHANGED <<app, ov, libs>>

\* the compositor advertises a descriptor for frame k
ScLinuxDmabuf ==
    /\ ScRunning
    /\ \E k \in 1..Len(sc.frames), t \in Descriptors :
         /\ sc.frames[k].phase = "negotiating"
         /\ sc.frames[k].ndesc < MaxDescEvents
         /\ LET h == HandleLinuxDmabuf(sc, t)
            IN sc' = [h EXCEPT
                        !.frames[k].ndesc = @ + 1,
                        !.ev = Event("linux_dmabuf", Some(t), IsSome(sc.dmabuf), k),
                        !.last_desc_event = Some(t),
                        !.done_since_desc =
                            IF h.dmabuf_desc # sc.dmabuf_desc THEN FALSE ELSE @]
    /\ UNCHANGED <<app, ov, libs>>

\* the compositor ends the negotiation of frame k
ScBufferDone ==
    /\ ScRunning
    /\ \E k \in 1..Len(sc.frames), outcome \in ImportOutcomes :
         /\ sc.frames[k].phase = "negotiating"
         /\ LET h == HandleBufferDone(sc, k, outcome)
            IN sc' = [h EXCEPT
                        !.frames[k].phase =
                            IF Len(h.copies) > Len(sc.copies) THEN "copying" ELSE @,
                        !.ev = Event("buffer_done", sc.dmabuf_desc, IsSome(sc.dmabuf), k),
                        !.done_since_desc = (h.panic = "")]
    /\ UNCHANGED <<app, ov, libs>>

\* the compositor finished the copy of frame k
ScReady ==
    /\ ScRunning
    /\ \E k \in 1..Len(sc.frames) :
         /\ sc.frames[k].phase = "copying"
         /\ sc' = [HandleReady(sc) EXCEPT
                     !.frames[k].phase = "done",
                     !.ev = Event("ready", None, IsSome(sc.dmabuf), k)]
    /\ UNCHANGED <<app, ov, libs>>

\* the compositor gives up on frame k
ScFailed ==
    /\ ScRunning
    /\ \E k \in 1..Len(sc.frames) :
         /\ sc.frames[k].phase \in {"negotiating", "copying"}
         /\ sc' = [HandleFailed(sc) EXCEPT
                     !.frames[k].phase = "done",
                     !.ev = Event("failed", None, IsSome(sc.dmabuf), k)]
    /\ UNCHANGED <<app, ov, libs>>

\* the owner drops the Box<Screencopy>: its fields are dropped, dmabuf
\* among them (Screencopy has no Drop impl of its own)
ScDrop ==
    /\ ScRunning
    /\ sc' = [DropDmabuf(sc) EXCEPT !.dropped = TRUE,
                                    !.ev = Event("drop", None, IsSome(sc.dmabuf), 0)]
    /\ UNCHANGED <<app, ov, libs>>

\* the frames are never destroyed and keep the freed Screencopy as listener
\* data: an event of an unfinished frame after the drop runs its handler on
\* freed memory
ScEventAfterDrop ==
    /\ sc.dropped
    /\ sc.panic = ""
    /\ \E k \in 1..Len(sc.frames) : sc.frames[k].phase \in {"negotiating", "copying"}
    /\ sc' = [sc EXCEPT !.panic = "undefined behaviour: listener data was freed"]
    /\ UNCHANGED <<app, ov, libs>>

ScNext ==
    \/ ScCapture
    \/ ScLinuxDmabuf
    \/ ScBufferDone
    \/ ScReady
    \/ ScFailed
    \/ ScDrop
    \/ ScEventAfterDrop



(***************************************************************************)
(* Orchestrator: src/src/main.rs                                           *)
(*                                                                         *)
(* app is the App struct with main's position in it:                       *)
(*   pc          "start" (after the registry roundtrip), "capture_scan"    *)
(*               (head of capture_all_screens' loop), "capture_dispatch"   *)
(*               (inside blocking_dispatch), "capture_ok", "capture_err"   *)
(*   screens     Vec<Screen>; screens[i].screencopy is Option<Screencopy>  *)
(*               and screens[i].frame the compositor's progress on the     *)
(*               frame requested for output i                              *)
(*               frame requested for output i, screens[i].copies the copy  *)
(*               requests sent on that frame (buffer ids) and              *)
(*               screens[i].built the imported units built for output i    *)
(*   result      what capture_all_screens returned                         *)
(*   panic       "" or why the process aborted                             *)
(* and, for the overlay phase that follows the capture (SpecPresent):      *)
(*   pc          "capture_ok", "overlay_scan" (head of overlay_all_screens'*)
(*               loop), "overlay_dispatch", "overlay_err", "main_dispatch" *)
(*               (main's loop, inside blocking_dispatch), "exit"           *)
(*   compositor, layer_shell, fractional_scale_manager, viewporter         *)
(*               the globals the registry advertised                       *)
(*   copy        App::copy                                                 *)
(*   nfs         the wp_fractional_scale_v1 objects created (never         *)
(*               destroyed), their user data being the indices 1..nfs      *)
(*   trace       the requests and platform calls of handle_copy_request    *)
(*               and of the drop of the screens, in order                  *)
(*   screens[i]  surface, viewport, layer_surface, fractional_scale,       *)
(*               layer_surface_configured, logical_size, egl_window,       *)
(*               egl_window_surface as in struct Screen; crop is           *)
(*               crop.crop_rect.is_some(); windows counts the native       *)
(*               windows created, presented the frames swapped, callback   *)
(*               tells whether a wl_surface.frame callback is pending      *)
(***************************************************************************)
AppImportOutcomes == {"ok", "egl_error", "two_planes"}

\* descriptors the compositor advertises to the orchestrator's frames: two
\* supported ones and an unsupported one
AppDescriptors ==
    {ScreencopyDmabufDescriptor(DRM_FORMAT_XRGB8888, 800, 600),
     ScreencopyDmabufDescriptor(DRM_FORMAT_XRGB8888, 1920, 1080),
     ScreencopyDmabufDescriptor(DRM_FORMAT_OTHER, 800, 600)}

\* wl_registry Global "wl_output": state.screens.push(Screen { .. })
NewScreen ==
    [screencopy |-> None, frame |-> [phase |-> "none", ndesc |-> 0],
     copies |-> <<>>, built |-> 0,
     surface |-> FALSE, fractional_scale |-> None, viewport |-> FALSE,
     layer_surface |-> None, layer_surface_configured |-> FALSE,
     logical_size |-> None, egl_window |-> None, egl_window_surface |-> None,
     crop |-> FALSE, windows |-> 0, presented |-> 0, callback |-> FALSE]

\* anyhow!(msg): the error is its message; none of main.rs's messages
\* formats a screen index into it
AnyhowError(msg) == [ok |-> FALSE, msg |-> msg, idx |-> None]

OkResult == [ok |-> TRUE, msg |-> "", idx |-> None]

\* ScreencopyDmabuf::new of main.rs
AppScreencopyDmabufNew(linux_dmabuf, width, height, format, outcome, id) ==
    IF format # DRM_FORMAT_XRGB8888
    THEN [kind |-> "panic", why |-> "unhandled fourcc format"]
    ELSE IF outcome = "egl_error"
    THEN [kind |-> "err", why |-> "egl call failed"]
    ELSE IF outcome = "two_planes"
    THEN [kind |-> "panic", why |-> "assertion failed: num_planes == 1"]
    ELSE IF ~linux_dmabuf
    THEN [kind |-> "err", why |-> "linux dmabuf is unavail"]
    ELSE [kind |-> "ok",
          value |-> [id |-> id, format |-> format, width |-> width, height |-> height]]

\* Dispatch<ZwlrScreencopyFrameV1>::event, LinuxDmabuf arm
DispatchLinuxDmabuf(a, idx, next_dmabuf_desc, outcome) ==
    LET screencopy == Unwrap(a.screens[idx].screencopy)
    IN IF IsSome(screencopy.dmabuf_desc)
          /\ DescEq(Unwrap(screencopy.dmabuf_desc), next_dmabuf_desc)
       THEN a
       ELSE LET r == AppScreencopyDmabufNew(a.linux_dmabuf, next_dmabuf_desc.width,
                                            next_dmabuf_desc.height,
                                            next_dmabuf_desc.format, outcome,
                                            <<idx, a.screens[idx].built + 1>>)
            IN IF r.kind = "ok"
               THEN [a EXCEPT
                       !.screens[idx].screencopy =
                           Some([screencopy EXCEPT
                                   !.dmabuf_desc = Some(next_dmabuf_desc),
                                   !.dmabuf = Some(r.value)]),
                       !.screens[idx].built = @ + 1]
               ELSE [a EXCEPT !.panic = r.why]

\* Dispatch<ZwlrScreencopyFrameV1>::event, BufferDone arm
DispatchBufferDone(a, idx) ==
    LET screencopy == Unwrap(a.screens[idx].screencopy)
    IN IF IsNone(screencopy.dmabuf)
       THEN [a EXCEPT !.panic = "called Option::unwrap() on a None value"]
       ELSE [a EXCEPT !.screens[idx].copies = Append(@, Unwrap(screencopy.dmabuf).id)]

\* Dispatch<ZwlrScreencopyFrameV1>::event, Ready arm
DispatchReady(a, idx) ==
    [a EXCEPT !.screens[idx].screencopy =
                  Some([Unwrap(a.screens[idx].screencopy) EXCEPT !.state = "Ready"])]

\* Dispatch<ZwlrScreencopyFrameV1>::event, Failed arm
DispatchFailed(a, idx) ==
    [a EXCEPT !.screens[idx].screencopy =
                  Some([Unwrap(a.screens[idx].screencopy) EXCEPT !.state = "Failed"])]

ScreenState(a, i) == Unwrap(a.screens[i].screencopy).state

\* capture_all_screens, up to its loop: one capture request per screen
CaptureAllScreensIssue(a) ==
    IF ~a.screencopy_manager
    THEN [a EXCEPT !.pc = "capture_err",
                   !.result = Some(AnyhowError("screencopy manager is unavail"))]
    ELSE [a EXCEPT
            !.pc = "capture_scan",
            !.screens =
                [i \in 1..Len(a.screens) |->
                    [a.screens[i] EXCEPT
                       !.screencopy = Some([state |-> "Pending",
                                            dmabuf_desc |-> None,
                                            dmabuf |-> None]),
                       !.frame = [phase |-> "negotiating", ndesc |-> 0]]]]

\* a scan that re-issues the capture of a failed output instead of failing
CaptureAllScreensScanRetries(a) ==
    LET failed == {i \in 1..Len(a.screens) : ScreenState(a, i) = "Failed"}
        pending == Cardinality({i \in 1..Len(a.screens) : ScreenState(a, i) = "Pending"})
    IN IF failed # {}
       THEN [a EXCEPT
               !.pc = "capture_dispatch",
               !.screens =
                   [i \in 1..Len(a.screens) |->
                       IF i \in failed
                       THEN [a.screens[i] EXCEPT
                               !.screencopy = Some([Unwrap(@) EXCEPT !.state = "Pending"]),
                               !.frame = [phase |-> "negotiating", ndesc |-> 0]]
                       ELSE a.screens[i]]]
       ELSE IF pending = 0
       THEN [a EXCEPT !.pc = "capture_ok", !.result = Some(OkResult)]
       ELSE [a EXCEPT !.pc = "capture_dispatch"]

\* a scan that stops waiting as soon as one output is Ready
CaptureAllScreensScanAnyReady(a) ==
    LET failed == {i \in 1..Len(a.screens) : ScreenState(a, i) = "Failed"}
        ready == {i \in 1..Len(a.screens) : ScreenState(a, i) = "Ready"}
    IN IF failed # {}
       THEN [a EXCEPT !.pc = "capture_err",
                      !.result = Some(AnyhowError("screencopy failed"))]
       ELSE IF ready # {} \/ Len(a.screens) = 0
       THEN [a EXCEPT !.pc = "capture_ok", !.result = Some(OkResult)]
       ELSE [a EXCEPT !.pc = "capture_dispatch"]

\* one pass of capture_all_screens' loop, up to blocking_dispatch
CaptureAllScreensScan(a) ==
    LET failed == {i \in 1..Len(a.screens) : ScreenState(a, i) = "Failed"}
        pending == Cardinality({i \in 1..Len(a.screens) : ScreenState(a, i) = "Pending"})
    IN IF failed # {}
       THEN [a EXCEPT !.pc = "capture_err",
                      !.result = Some(AnyhowError("screencopy failed"))]
       ELSE IF pending = 0
       THEN [a EXCEPT !.pc = "capture_ok", !.result = Some(OkResult)]
       ELSE [a EXCEPT !.pc = "capture_dispatch"]

\* main's App after event_queue.roundtrip: the globals and the outputs the
\* registry advertised
NewApp(n, screencopy_manager, linux_dmabuf, overlay_globals) ==
    [pc |-> "start",
     screens |-> [i \in 1..n |-> NewScreen],
     screencopy_manager |-> screencopy_manager,
     linux_dmabuf |-> linux_dmabuf,
     compositor |-> overlay_globals[1],
     layer_shell |-> overlay_globals[2],
     fractional_scale_manager |-> overlay_globals[3],
     viewporter |-> overlay_globals[4],
     copy |-> FALSE,
     nfs |-> 0,
     trace |-> <<>>,
     result |-> None,
     panic |-> ""]

AppInit ==
    \E n \in 0..MaxScreens, m \in BOOLEAN, d \in BOOLEAN :
        app = NewApp(n, m, d, <<TRUE, TRUE, TRUE, TRUE>>)

AppRunning == app.panic = ""

\* blocking_dispatch returns after this event, or handles one more first
AfterEvent(a, more) ==
    IF a.panic # "" THEN a
    ELSE [a EXCEPT !.pc = IF more THEN "capture_dispatch" ELSE "capture_scan"]

AppCaptureIssue ==
    /\ AppRunning
    /\ app.pc = "start"
    /\ app' = CaptureAllScreensIssue(app)
    /\ UNCHANGED <<sc, ov, libs>>

AppCaptureScan ==
    /\ AppRunning
    /\ app.pc = "capture_scan"
    /\ app' = CaptureAllScreensScan(app)
    /\ UNCHANGED <<sc, ov, libs>>

AppLinuxDmabuf ==
    /\ AppRunning
    /\ app.pc = "capture_dispatch"
    /\ \E idx \in 1..Len(app.screens), t \in AppDescriptors,
          outcome \in AppImportOutcomes, more \in BOOLEAN :
         /\ app.screens[idx].frame.phase = "negotiating"
         /\ app.screens[idx].frame.ndesc < MaxDescEvents
         /\ LET h == DispatchLinuxDmabuf(app, idx, t, outcome)
            IN app' = [AfterEvent(h, more) EXCEPT !.screens[idx].frame.ndesc = @ + 1]
    /\ UNCHANGED <<sc, ov, libs>>

AppBufferDone ==
    /\ AppRunning
    /\ app.pc = "capture_dispatch"
    /\ \E idx \in 1..Len(app.screens), more \in BOOLEAN :
         /\ app.screens[idx].frame.phase = "negotiating"
         /\ LET h == DispatchBufferDone(app, idx)
            IN app' = [AfterEvent(h, more) EXCEPT
                         !.screens[idx].frame.phase =
                             IF h.screens[idx].copies # app.screens[idx].copies
                             THEN "copying" ELSE @]
    /\ UNCHANGED <<sc, ov, libs>>

AppReady ==
    /\ AppRunning
    /\ app.pc = "capture_dispatch"
    /\ \E idx \in 1..Len(app.screens), more \in BOOLEAN :
         /\ app.screens[idx].frame.phase = "copying"
         /\ app' = [AfterEvent(DispatchReady(app, idx), more) EXCEPT
                      !.screens[idx].frame.phase = "done"]
    /\ UNCHANGED <<sc, ov, libs>>

AppFailed ==
    /\ AppRunning
    /\ app.pc = "capture_dispatch"
    /\ \E idx \in 1..Len(app.screens), more \in BOOLEAN :
         /\ app.screens[idx].frame.phase \in {"negotiating", "copying"}
         /\ app' = [AfterEvent(DispatchFailed(app, idx), more) EXCEPT
                      !.screens[idx].frame.phase = "done"]
    /\ UNCHANGED <<sc, ov, libs>>

\* event_queue.blocking_dispatch(self)? when the connection is lost
AppDispatchError ==
    /\ AppRunning
    /\ app.pc = "capture_dispatch"
    /\ app' = [app EXCEPT !.pc = "capture_err",
                          !.result = Some(AnyhowError("dispatch failed"))]
    /\ UNCHANGED <<sc, ov, libs>>

\* event_queue.blocking_dispatch(self)? returns Ok: the events handled so
\* far were the whole batch, or the batch held only events whose arm is
\* `_ => {}` (buffer, flags, damage)
AppDispatchReturn ==
    /\ AppRunning
    /\ app.pc = "capture_dispatch"
    /\ app' = [app EXCEPT !.pc = "capture_scan"]
    /\ UNCHANGED <<sc, ov, libs>>

AppNext ==
    \/ AppCaptureIssue
    \/ AppCaptureScan
    \/ AppDispatchReturn
    \/ AppLinuxDmabuf
    \/ AppBufferDone
    \/ AppReady
    \/ AppFailed
    \/ AppDispatchError



(***************************************************************************)
(* Overlay: src/src/wayland_overlay.rs                                     *)
(*                                                                         *)
(* ov is one Overlay object:                                               *)
(*   fractional_scale   Option<f64>, kept as the numerator n of n/120      *)
(*   logical_size       Option<Size>                                       *)
(*   acked_first_configure, window, window_surface   the struct's fields   *)
(*   layer_surface      Option: the layer role object                      *)
(*   reqs        the requests and platform calls made, in order            *)
(*   created     the number of native windows created so far (their ids)   *)
(*   ret         "" or the Err the last configure() returned               *)
(*   dropped     the Overlay has been dropped (its Drop impl has run)      *)
(*   panic       "" or why the process aborted                             *)
(*   nconf, nscale   the events received so far                            *)
(***************************************************************************)
ScaleDenominator == 120

PreferredScales == {120, 131, 144, 180}

LogicalSizes ==
    {[width |-> 1920, height |-> 1080],
     [width |-> 1281, height |-> 721],
     [width |-> 1600, height |-> 900]}

WindowOutcomes == {"ok", "window_null", "surface_error"}

\* preferred-scale events the compositor sends to one overlay
MaxScaleEvents == 2

\* Size::new
Size(width, height) == [width |-> width, height |-> height]

\* x * n / 120 rounded to an integer, halves away from zero (x >= 0): what
\* f64::round returns whenever the f64 product is not below an exact half
RoundScaled(x, n) == (2 * x * n + ScaleDenominator) \div (2 * ScaleDenominator)

\* floor(log2(v)) for an integer v >= 1
RECURSIVE Log2Floor(_)
Log2Floor(v) == IF v < 2 THEN 0 ELSE 1 + Log2Floor(v \div 2)

\* the least j with n * 2^j >= 120, for 1 <= n < 120
RECURSIVE Log2Deficit(_)
Log2Deficit(n) == IF n >= ScaleDenominator THEN 0 ELSE 1 + Log2Deficit(2 * n)

\* the binary exponent a of the f64 `scale as f64 / 120.0`: 2^a <= n/120 < 2^(a+1)
ScaleExponent(n) ==
    IF n >= ScaleDenominator THEN Log2Floor(n \div ScaleDenominator)
    ELSE 0 - Log2Deficit(n)

\* `scale as f64 / 120.0` is n/120 rounded to a 53-bit significand M:
\* M = round(n * 2^e / 15) with e = 49 - a, so the f64 is
\* n/120 + d / (15 * 2^(52 - a)) with d in -7..7 computed from
\* (n * 2^e) mod 15 (2^e mod 15 has period 4); d = 0 when n/120 is exact
ScaleRoundingError(n) ==
    LET e == 49 - ScaleExponent(n)
        m == (n * 2^(e % 4)) % 15
    IN IF m <= 7 THEN 0 - m ELSE 15 - m

\* ((x as f64) * (n as f64 / 120.0)).round() as u32 for x >= 1, n >= 1.
\* The f64 product differs from x*n/120 by less than 1/240, so the result is
\* RoundScaled(x, n) unless x*n/120 is exactly k + 1/2 and the product falls
\* below it: the scale was rounded down (d < 0) and the deficit x*|d| /
\* (15 * 2^(52-a)) exceeds half the spacing 2^(b-52) of the f64s below
\* k + 1/2 (2^b <= k + 1/2 < 2^(b+1)); then round() yields k.
F64RoundScaled(x, n) ==
    LET exact == RoundScaled(x, n)
        half == (2 * x * n) % (2 * ScaleDenominator) = ScaleDenominator
        k == (2 * x * n - ScaleDenominator) \div (2 * ScaleDenominator)
        a == ScaleExponent(n)
        d == ScaleRoundingError(n)
        below == IF k = 0
                 THEN 4 * x * (0 - d) > 15 * 2^(0 - 1 - a)
                 ELSE 2 * x * (0 - d) > 15 * 2^(Log2Floor(k) - a)
    IN IF half /\ d < 0 /\ below THEN exact - 1 ELSE exact

\* a to_physical computed in exact arithmetic
ToPhysicalExact(size, n) == Size(RoundScaled(size.width, n), RoundScaled(size.height, n))

\* Size::to_physical, the scale factor given by its numerator
ToPhysical(size, n) == Size(F64RoundScaled(size.width, n), F64RoundScaled(size.height, n))

Req(op, arg) == [op |-> op, arg |-> arg]

\* Overlay::new_boxed returning Ok: every manager available and every
\* object created
OverlayNewBoxed ==
    [surface |-> TRUE,
     layer_surface |-> Some("layer_surface"),
     viewport |-> TRUE,
     fractional_scale |-> None,
     logical_size |-> None,
     acked_first_configure |-> FALSE,
     window |-> None,
     window_surface |-> None,
     reqs |-> <<Req("create_surface", <<>>), Req("get_fractional_scale", <<>>),
                Req("get_layer_surface", <<>>), Req("commit", <<>>),
                Req("get_viewport", <<>>)>>,
     created |-> 0,
     ret |-> "",
     dropped |-> FALSE,
     panic |-> "",
     nconf |-> 0,
     nscale |-> 0]

\* Overlay::new_boxed returning Err(ret) after the requests reqs: no Overlay
\* exists, the objects already created stay as they are
NewBoxedErr(ret, reqs) ==
    [OverlayNewBoxed EXCEPT !.ret = ret,
                            !.reqs = reqs,
                            !.surface = Len(reqs) > 0,
                            !.layer_surface = IF Len(reqs) > 2 THEN @ ELSE None,
                            !.viewport = FALSE]

\* Overlay::new_boxed for the globals the registry advertised
\* (compositor, fractional_scale_manager, layer_shell, viewporter)
NewBoxed(globals) ==
    IF ~globals[1]
    THEN NewBoxedErr("compositor is not available", <<>>)
    ELSE IF ~globals[2]
    THEN NewBoxedErr("fractional scale manager is not available",
                     SubSeq(OverlayNewBoxed.reqs, 1, 1))
    ELSE IF ~globals[3]
    THEN NewBoxedErr("layer shell is not available",
                     SubSeq(OverlayNewBoxed.reqs, 1, 2))
    ELSE IF ~globals[4]
    THEN NewBoxedErr("viewporter is not available",
                     SubSeq(OverlayNewBoxed.reqs, 1, 4))
    ELSE OverlayNewBoxed

\* Overlay::configure, from `if self.window.is_none()` on
ConfigureApply(o, outcome) ==
    LET fractional_scale ==
            IF IsSome(o.fractional_scale) THEN Unwrap(o.fractional_scale)
            ELSE ScaleDenominator
        logical_size == Unwrap(o.logical_size)
        physical_size == ToPhysical(logical_size, fractional_scale)
        present == <<Req("set_destination", logical_size), Req("commit", <<>>)>>
        window == [id |-> o.created + 1,
                   width |-> physical_size.width,
                   height |-> physical_size.height]
    IN IF IsSome(o.window)
       THEN [o EXCEPT !.reqs = @ \o present, !.ret = ""]
       ELSE IF outcome = "window_null"
       THEN [o EXCEPT !.ret = "could not create wl egl window"]
       ELSE IF outcome = "surface_error"
       THEN [o EXCEPT !.window = Some(window),
                      !.created = @ + 1,
                      !.reqs = Append(@, Req("wl_egl_window_create", window)),
                      !.ret = "could not create window surface"]
       ELSE [o EXCEPT !.window = Some(window),
                      !.window_surface = Some([id |-> window.id, window |-> window.id]),
                      !.created = @ + 1,
                      !.reqs = @ \o <<Req("wl_egl_window_create", window),
                                      Req("CreateWindowSurface", window.id)>>
                                 \o present,
                      !.ret = ""]

\* Overlay::configure
Configure(o, fractional_scale, logical_size, outcome) ==
    LET merged == [o EXCEPT
                     !.fractional_scale =
                         IF IsSome(fractional_scale) THEN fractional_scale ELSE @,
                     !.logical_size =
                         IF IsSome(logical_size) THEN logical_size ELSE @]
    IN IF ~merged.acked_first_configure
       THEN [merged EXCEPT !.ret = ""]
       ELSE IF IsNone(merged.logical_size)
       THEN [merged EXCEPT !.ret = "logical size is missing?"]
       ELSE ConfigureApply(merged, outcome)

\* .expect("failed to configure overlay")
Expect(o) == IF o.ret # "" THEN [o EXCEPT !.panic = o.ret] ELSE o

\* handle_preferred_scale
HandlePreferredScale(o, scale, outcome) ==
    Expect(Configure(o, Some(scale), None, outcome))

\* handle_configure creating the window without acknowledging the configure
HandleConfigureUnacked(o, serial, width, height, outcome) ==
    Expect(ConfigureApply([o EXCEPT !.logical_size = Some(Size(width, height))],
                          outcome))

\* handle_configure acknowledging after it has configured the overlay
HandleConfigureAcksLast(o, serial, width, height, outcome) ==
    LET c == Configure([o EXCEPT !.acked_first_configure = TRUE],
                       None, Some(Size(width, height)), outcome)
    IN Expect([c EXCEPT !.reqs = Append(@, Req("ack_configure", serial))])

\* handle_configure
HandleConfigure(o, serial, width, height, outcome) ==
    LET acked == [o EXCEPT !.reqs = Append(@, Req("ack_configure", serial)),
                           !.acked_first_configure = TRUE]
    IN Expect(Configure(acked, None, Some(Size(width, height)), outcome))

\* hiding an overlay: layer_surface.take().unwrap() and destroy, as
\* handle_copy_request does for every screen before the readback
Hide(o) ==
    [o EXCEPT !.layer_surface = None,
              !.reqs = Append(@, Req("zwlr_layer_surface_v1_destroy", <<>>))]

\* a teardown that destroys the base surface before the objects made from it
OverlayDropSurfaceFirst(o) ==
    [o EXCEPT
       !.window_surface = None,
       !.window = None,
       !.layer_surface = None,
       !.surface = FALSE,
       !.viewport = FALSE,
       !.dropped = TRUE,
       !.reqs = @ \o <<Req("wl_surface_destroy", <<>>)>>
                  \o (IF IsSome(o.window_surface)
                      THEN <<Req("DestroySurface", Unwrap(o.window_surface).id)>>
                      ELSE <<>>)
                  \o (IF IsSome(o.window)
                      THEN <<Req("wl_egl_window_destroy", Unwrap(o.window).id)>>
                      ELSE <<>>)
                  \o <<Req("wp_viewport_destroy", <<>>)>>
                  \o (IF IsSome(o.layer_surface)
                      THEN <<Req("zwlr_layer_surface_v1_destroy", <<>>)>>
                      ELSE <<>>)]

\* impl Drop for Overlay
OverlayDrop(o) ==
    [o EXCEPT
       !.window_surface = None,
       !.window = None,
       !.layer_surface = None,
       !.surface = FALSE,
       !.viewport = FALSE,
       !.dropped = TRUE,
       !.reqs = @ \o (IF IsSome(o.window_surface)
                      THEN <<Req("DestroySurface", Unwrap(o.window_surface).id)>>
                      ELSE <<>>)
                  \o (IF IsSome(o.window)
                      THEN <<Req("wl_egl_window_destroy", Unwrap(o.window).id)>>
                      ELSE <<>>)
                  \o <<Req("wp_viewport_destroy", <<>>)>>
                  \o (IF IsSome(o.layer_surface)
                      THEN <<Req("zwlr_layer_surface_v1_destroy", <<>>)>>
                      ELSE <<>>)
                  \o <<Req("wl_surface_destroy", <<>>)>>]

OvInit == \E globals \in [1..4 -> BOOLEAN] : ov = NewBoxed(globals)

\* an Overlay exists: new_boxed returned Ok, nothing panicked, not dropped
OvRunning == ov.panic = "" /\ ~ov.dropped /\ ov.ret = ""

\* the compositor sends wp_fractional_scale_v1.preferred_scale
OvPreferredScale ==
    /\ OvRunning
    /\ ov.nscale < MaxScaleEvents
    /\ \E scale \in PreferredScales, outcome \in WindowOutcomes :
         ov' = [HandlePreferredScale(ov, scale, outcome) EXCEPT !.nscale = @ + 1]
    /\ UNCHANGED <<sc, app, libs>>

\* the compositor sends zwlr_layer_surface_v1.configure
OvConfigure ==
    /\ OvRunning
    /\ IsSome(ov.layer_surface)
    /\ ov.nconf < MaxConfigures
    /\ \E size \in LogicalSizes, outcome \in WindowOutcomes :
         ov' = [HandleConfigure(ov, ov.nconf + 1, size.width, size.height, outcome)
                  EXCEPT !.nconf = @ + 1]
    /\ UNCHANGED <<sc, app, libs>>

\* the owner hides the overlay
OvHide ==
    /\ OvRunning
    /\ IsSome(ov.layer_surface)
    /\ ov' = Hide(ov)
    /\ UNCHANGED <<sc, app, libs>>

\* the owner drops the Box<Overlay>
OvDrop ==
    /\ OvRunning
    /\ ov' = OverlayDrop(ov)
    /\ UNCHANGED <<sc, app, libs>>

\* the wp_fractional_scale_v1 object is not destroyed by Drop, nor by a
\* new_boxed that fails after creating it, and keeps the freed Overlay as
\* listener data: a later preferred_scale event runs handle_preferred_scale
\* on freed memory
OvPreferredScaleAfterDrop ==
    /\ ov.dropped \/ (ov.ret # "" /\ Len(ov.reqs) >= 2)
    /\ ov.panic = ""
    /\ ov.nscale < MaxScaleEvents
    /\ ov' = [ov EXCEPT !.panic = "undefined behaviour: listener data was freed",
                        !.nscale = @ + 1]
    /\ UNCHANGED <<sc, app, libs>>

OvNext ==
    \/ OvPreferredScale
    \/ OvConfigure
    \/ OvHide
    \/ OvDrop
    \/ OvPreferredScaleAfterDrop

(***************************************************************************)
(* Orchestrator, overlay phase: src/src/main.rs, from the return of        *)
(* capture_all_screens on (overlay_all_screens, the layer-surface,         *)
(* fractional-scale and frame-callback dispatchers, draw_screen,           *)
(* handle_copy_request, main's loop).                                      *)
(***************************************************************************)
\* frames one output presents from frame callbacks and configures
MaxFrames == 2

AppScales == {144}

AppLogicalSizes == {Size(1920, 1080)}

\* what the platform does in the configure handler and in draw_screen
PresentOutcomes == {"ok", "window_null", "surface_error", "draw_error"}

Op(op, idx) == [op |-> op, idx |-> idx]

\* the events of one output's capture, handled in protocol order
RECURSIVE CaptureEach(_, _)
CaptureEach(a, idx) ==
    IF idx > Len(a.screens) THEN a
    ELSE LET desc == ScreencopyDmabufDescriptor(DRM_FORMAT_XRGB8888, 1920, 1080)
             d == DispatchReady(
                      DispatchBufferDone(DispatchLinuxDmabuf(a, idx, desc, "ok"), idx),
                      idx)
         IN CaptureEach([d EXCEPT !.screens[idx].frame = [phase |-> "done", ndesc |-> 1]],
                        idx + 1)

\* main's App when capture_all_screens has returned Ok(())
CapturedApp(n, overlay_globals) ==
    CaptureAllScreensScan(
        CaptureEach(CaptureAllScreensIssue(NewApp(n, TRUE, TRUE, overlay_globals)), 1))

\* what dropping one Screen destroys, in the order of its fields: the
\* wayland_client proxies (output, surface, viewport, layer_surface,
\* wl_buffer) send nothing when dropped
ScreenDropOps(screen, idx) ==
    (IF IsSome(screen.screencopy) /\ IsSome(Unwrap(screen.screencopy).dmabuf)
     THEN <<Op("DeleteTextures", idx), Op("DestroyImageKHR", idx)>> ELSE <<>>)
    \o (IF IsSome(screen.egl_window) THEN <<Op("wl_egl_window_destroy", idx)>> ELSE <<>>)
    \o (IF IsSome(screen.egl_window_surface) THEN <<Op("DestroySurface", idx)>> ELSE <<>>)

RECURSIVE ScreensDropOps(_, _)
ScreensDropOps(screens, idx) ==
    IF idx > Len(screens) THEN <<>>
    ELSE ScreenDropOps(screens[idx], idx) \o ScreensDropOps(screens, idx + 1)

\* self.screens.clear(), and the drop of App when main returns
DropScreens(a) ==
    [a EXCEPT !.trace = @ \o ScreensDropOps(a.screens, 1), !.screens = <<>>]

\* main returns (`?`, or the end of its loop): app is dropped
ExitMain(a, pc, result) ==
    [DropScreens(a) EXCEPT !.pc = pc, !.result = Some(result)]

\* overlay_all_screens, up to its loop
OverlayAllScreensIssue(a) ==
    IF ~a.compositor
    THEN ExitMain(a, "overlay_err", AnyhowError("compositor is unavail"))
    ELSE IF ~a.layer_shell
    THEN ExitMain(a, "overlay_err", AnyhowError("layer shell is unavail"))
    ELSE IF ~a.fractional_scale_manager
    THEN ExitMain(a, "overlay_err", AnyhowError("fractional scale manager is unavail"))
    ELSE IF ~a.viewporter
    THEN ExitMain(a, "overlay_err", AnyhowError("viewporter is unavail;"))
    ELSE [a EXCEPT
            !.pc = "overlay_scan",
            !.nfs = Len(a.screens),
            !.screens = [i \in 1..Len(a.screens) |->
                            [a.screens[i] EXCEPT !.surface = TRUE,
                                                 !.viewport = TRUE,
                                                 !.layer_surface = Some("layer_surface")]]]

\* a scan that counts every output as pending, configured or not
OverlayAllScreensScanCountsAll(a) ==
    LET pending == Len(a.screens)
    IN IF pending = 0 THEN [a EXCEPT !.pc = "main_dispatch"]
       ELSE [a EXCEPT !.pc = "overlay_dispatch"]

\* one pass of overlay_all_screens' loop, up to blocking_dispatch; Ok(())
\* takes main to its own loop
OverlayAllScreensScan(a) ==
    LET pending == Cardinality({i \in 1..Len(a.screens) :
                                   ~a.screens[i].layer_surface_configured})
    IN IF pending = 0 THEN [a EXCEPT !.pc = "main_dispatch"]
       ELSE [a EXCEPT !.pc = "overlay_dispatch"]

\* draw_screen, followed by the caller's .expect("failed to draw")
DrawScreen(a, screen_idx, swap_buffers, outcome) ==
    LET screen == a.screens[screen_idx]
    IN IF \/ IsNone(screen.egl_window_surface)
          \/ IsNone(screen.screencopy)
          \/ IsNone(Unwrap(screen.screencopy).dmabuf)
          \/ IsNone(screen.logical_size)
       THEN [a EXCEPT !.panic = "called Option::unwrap() on a None value"]
       ELSE IF outcome = "draw_error"
       THEN [a EXCEPT !.panic = "failed to draw"]
       ELSE IF ~swap_buffers THEN a
       ELSE IF a.copy THEN [a EXCEPT !.panic = "assertion failed: !self.copy"]
       ELSE [a EXCEPT !.screens[screen_idx].presented = @ + 1]

\* a Configure arm that draws before it stores the window surface and the
\* logical size
LayerSurfaceConfigureDrawsFirst(a, idx, serial, width, height, outcome) ==
    LET screen == a.screens[idx]
        egl_window == [id |-> screen.windows + 1, width |-> width, height |-> height]
    IN IF outcome = "window_null"
       THEN [a EXCEPT !.panic = "failed to create wl egl window"]
       ELSE IF outcome = "surface_error"
       THEN [a EXCEPT !.panic = "failed to create egl window surface"]
       ELSE LET drawn == DrawScreen(a, idx, TRUE, outcome)
            IN IF drawn.panic # "" THEN drawn
               ELSE [drawn EXCEPT !.screens[idx] =
                        [@ EXCEPT !.layer_surface_configured = TRUE,
                                  !.logical_size = Some(Size(width, height)),
                                  !.egl_window = Some(egl_window),
                                  !.egl_window_surface = Some([id |-> egl_window.id]),
                                  !.windows = @ + 1,
                                  !.callback = TRUE]]

\* Dispatch<ZwlrLayerSurfaceV1>::event, Configure arm
LayerSurfaceConfigure(a, idx, serial, width, height, outcome) ==
    LET screen == a.screens[idx]
        logical_size == Size(width, height)
        fractional_scale ==
            IF IsSome(screen.fractional_scale) THEN Unwrap(screen.fractional_scale)
            ELSE ScaleDenominator
        physical_size == ToPhysical(logical_size, fractional_scale)
        egl_window == [id |-> screen.windows + 1,
                       width |-> physical_size.width,
                       height |-> physical_size.height]
    IN IF outcome = "window_null"
       THEN [a EXCEPT !.panic = "failed to create wl egl window"]
       ELSE IF outcome = "surface_error"
       THEN [a EXCEPT !.panic = "failed to create egl window surface"]
       ELSE LET configured ==
                    [a EXCEPT !.screens[idx] =
                        [@ EXCEPT !.layer_surface_configured = TRUE,
                                  !.logical_size = Some(logical_size),
                                  !.egl_window = Some(egl_window),
                                  !.egl_window_surface = Some([id |-> egl_window.id]),
                                  !.windows = @ + 1]]
                drawn == DrawScreen(configured, idx, TRUE, outcome)
            IN IF drawn.panic # "" THEN drawn
               ELSE [drawn EXCEPT !.screens[idx].callback = TRUE]

\* Dispatch<WpFractionalScaleV1>::event: `&mut state.screens[idx]`
PreferredScaleEvent(a, idx, scale) ==
    IF idx > Len(a.screens)
    THEN [a EXCEPT !.panic = "index out of bounds"]
    ELSE [a EXCEPT !.screens[idx].fractional_scale = Some(scale)]

\* Dispatch<WlCallback>::event, Done arm
FrameCallbackDone(a, idx, outcome) ==
    IF a.copy THEN a ELSE DrawScreen(a, idx, TRUE, outcome)

\* update_all_screens for an event that mutates the crop of screen_idx
UpdateAllScreens(a, screen_idx) ==
    [a EXCEPT !.screens = [i \in 1..Len(a.screens) |->
                              [a.screens[i] EXCEPT !.crop = (i = screen_idx)]]]

\* a copy that drops the screens before it reads the pixels back
HandleCopyRequestDropsFirst(a, outcome) ==
    LET cropped == {i \in 1..Len(a.screens) : a.screens[i].crop}
    IN IF cropped = {} THEN a
       ELSE LET idx == CHOOSE i \in cropped : \A j \in cropped : i <= j
                hidden ==
                    [a EXCEPT
                       !.copy = TRUE,
                       !.screens = [i \in 1..Len(a.screens) |->
                                       [a.screens[i] EXCEPT
                                          !.layer_surface = None,
                                          !.layer_surface_configured = FALSE]],
                       !.trace = @ \o [i \in 1..Len(a.screens) |->
                                          Op("zwlr_layer_surface_v1_destroy", i)]]
                dropped == DropScreens(hidden)
            IN [dropped EXCEPT !.trace = @ \o <<Op("draw_screen", idx),
                                                 Op("read_pixels", idx)>>]

\* handle_copy_request, up to offer_clipboard_data
HandleCopyRequest(a, outcome) ==
    LET cropped == {i \in 1..Len(a.screens) : a.screens[i].crop}
    IN IF cropped = {} THEN a
       ELSE IF \E i \in 1..Len(a.screens) : IsNone(a.screens[i].layer_surface)
       THEN [a EXCEPT !.panic = "called Option::unwrap() on a None value"]
       ELSE LET idx == CHOOSE i \in cropped : \A j \in cropped : i <= j
                hidden ==
                    [a EXCEPT
                       !.copy = TRUE,
                       !.screens = [i \in 1..Len(a.screens) |->
                                       [a.screens[i] EXCEPT
                                          !.layer_surface = None,
                                          !.layer_surface_configured = FALSE]],
                       !.trace = @ \o [i \in 1..Len(a.screens) |->
                                          Op("zwlr_layer_surface_v1_destroy", i)]]
                drawn == DrawScreen(hidden, idx, FALSE, outcome)
            IN IF drawn.panic # "" THEN drawn
               ELSE DropScreens([drawn EXCEPT !.trace = @ \o <<Op("draw_screen", idx),
                                                               Op("read_pixels", idx)>>])

PresentInit ==
    \E n \in 0..MaxScreens, g \in [1..4 -> BOOLEAN] : app = CapturedApp(n, g)

AppDispatching ==
    /\ AppRunning
    /\ app.pc \in {"overlay_dispatch", "main_dispatch"}

\* blocking_dispatch returns after this event, or handles one more first
AfterPresentEvent(a, more) ==
    IF a.panic # "" \/ more \/ a.pc # "overlay_dispatch" THEN a
    ELSE [a EXCEPT !.pc = "overlay_scan"]

AppOverlayIssue ==
    /\ AppRunning
    /\ app.pc = "capture_ok"
    /\ app' = OverlayAllScreensIssue(app)
    /\ UNCHANGED <<sc, ov, libs>>

AppOverlayScan ==
    /\ AppRunning
    /\ app.pc = "overlay_scan"
    /\ app' = OverlayAllScreensScan(app)
    /\ UNCHANGED <<sc, ov, libs>>

AppLayerConfigure ==
    /\ AppDispatching
    /\ \E idx \in 1..Len(app.screens), size \in AppLogicalSizes,
          outcome \in PresentOutcomes, more \in BOOLEAN :
         /\ IsSome(app.screens[idx].layer_surface)
         /\ app.screens[idx].windows < MaxConfigures
         /\ app' = AfterPresentEvent(
                       LayerSurfaceConfigure(app, idx, app.screens[idx].windows + 1,
                                             size.width, size.height, outcome),
                       more)
    /\ UNCHANGED <<sc, ov, libs>>

AppPreferredScale ==
    /\ AppDispatching
    /\ \E idx \in 1..app.nfs, scale \in AppScales, more \in BOOLEAN :
         app' = AfterPresentEvent(PreferredScaleEvent(app, idx, scale), more)
    /\ UNCHANGED <<sc, ov, libs>>

AppFrameDone ==
    /\ AppDispatching
    /\ \E idx \in 1..Len(app.screens), outcome \in {"ok", "draw_error"},
          more \in BOOLEAN :
         /\ app.screens[idx].callback
         /\ app.screens[idx].presented < MaxFrames
         /\ app' = AfterPresentEvent(FrameCallbackDone(app, idx, outcome), more)
    /\ UNCHANGED <<sc, ov, libs>>

\* event_queue.blocking_dispatch(..)? when the connection is lost
AppPresentDispatchError ==
    /\ AppDispatching
    /\ app' = ExitMain(app, IF app.pc = "overlay_dispatch" THEN "overlay_err" ELSE "exit",
                       AnyhowError("dispatch failed"))
    /\ UNCHANGED <<sc, ov, libs>>

\* main's loop: a pointer event that drags a crop on output idx
AppUserCrop ==
    /\ AppRunning
    /\ app.pc = "main_dispatch"
    /\ ~app.copy
    /\ \E idx \in 1..Len(app.screens) : app' = UpdateAllScreens(app, idx)
    /\ UNCHANGED <<sc, ov, libs>>

\* main's loop: Ctrl+C
AppUserCopy ==
    /\ AppRunning
    /\ app.pc = "main_dispatch"
    /\ ~app.copy
    /\ \E outcome \in {"ok", "draw_error"} : app' = HandleCopyRequest(app, outcome)
    /\ UNCHANGED <<sc, ov, libs>>

\* main's loop: Esc sets quit, the loop ends and main returns Ok(())
AppUserEsc ==
    /\ AppRunning
    /\ app.pc = "main_dispatch"
    /\ ~app.copy
    /\ app' = ExitMain(app, "exit", OkResult)
    /\ UNCHANGED <<sc, ov, libs>>

\* overlay_all_screens' blocking_dispatch returns Ok: the events handled so
\* far were the whole batch, or no arm acted on the events of the batch
AppOverlayDispatchReturn ==
    /\ AppRunning
    /\ app.pc = "overlay_dispatch"
    /\ app' = [app EXCEPT !.pc = "overlay_scan"]
    /\ UNCHANGED <<sc, ov, libs>>

PresentNext ==
    \/ AppOverlayIssue
    \/ AppOverlayScan
    \/ AppOverlayDispatchReturn
    \/ AppLayerConfigure
    \/ AppPreferredScale
    \/ AppFrameDone
    \/ AppPresentDispatchError
    \/ AppUserCrop
    \/ AppUserCopy
    \/ AppUserEsc

(***************************************************************************)
(* The buffer-params request of ScreencopyDmabuf::new                      *)
(* (src/src/wayland_screencopy.rs:92-103).                                 *)
(*                                                                         *)
(* A u64 is four 16-bit limbs, most significant first, and a u32 two, so   *)
(* that no value leaves the range of the checker's integers.               *)
(*                                                                         *)
(* params is a record:                                                     *)
(*   export   what EGL exported: fd, offset, stride, modifiers             *)
(*   reqs     the requests sent to the zwp_linux_buffer_params_v1 object   *)
(***************************************************************************)
LimbBits == 16

LimbBase == 2^LimbBits

\* limb values the exported modifier is built from
Limbs == {0, 1, 255, LimbBase - 1}

Modifiers == {<<a, b, c, d>> : a \in Limbs, b \in Limbs, c \in Limbs, d \in Limbs}

Fds == {5, 9}

Offsets == {0, 256}

Strides == {3200, 7680}

Export(fd, offset, stride, modifiers) ==
    [fd |-> fd, offset |-> offset, stride |-> stride, modifiers |-> modifiers]

Exports ==
    {Export(fd, offset, stride, m) :
        fd \in Fds, offset \in Offsets, stride \in Strides, m \in Modifiers}

\* bitwise and of two naturals
RECURSIVE BitAnd(_, _)
BitAnd(a, b) ==
    IF a = 0 \/ b = 0 THEN 0
    ELSE (a % 2) * (b % 2) + 2 * BitAnd(a \div 2, b \div 2)

\* m >> 32 on a u64
Shr32(m) == <<0, 0, m[1], m[2]>>

\* m << 32 on a u64 (the bits shifted out are lost)
Shl32(m) == <<m[3], m[4], 0, 0>>

\* a & b on u64s
And64(a, b) == [k \in 1..4 |-> BitAnd(a[k], b[k])]

\* u32::MAX as u64
U32MaxAsU64 == <<0, 0, LimbBase - 1, LimbBase - 1>>

\* m as u32: the low 32 bits
AsU32(m) == <<m[3], m[4]>>

\* u as u64
AsU64(u) == <<0, 0, u[1], u[2]>>

\* a + b on u64s, wrapping
Add64(a, b) ==
    LET s4 == a[4] + b[4]
        s3 == a[3] + b[3] + s4 \div LimbBase
        s2 == a[2] + b[2] + s3 \div LimbBase
        s1 == a[1] + b[1] + s2 \div LimbBase
    IN <<s1 % LimbBase, s2 % LimbBase, s3 % LimbBase, s4 % LimbBase>>

\* zwp_linux_buffer_params_v1_add with its arguments as passed
ZwpLinuxBufferParamsAdd(p, fd, plane_idx, offset, stride, modifier_hi, modifier_lo) ==
    [p EXCEPT !.reqs = Append(@, [op |-> "add",
                                  args |-> <<fd, plane_idx, offset, stride,
                                             modifier_hi, modifier_lo>>])]

\* the add call with the two halves of the modifier exchanged
AddModifierLowFirst(p) ==
    ZwpLinuxBufferParamsAdd(p, p.export.fd, 0, p.export.offset, p.export.stride,
                            AsU32(And64(p.export.modifiers, U32MaxAsU64)),
                            AsU32(Shr32(p.export.modifiers)))

\* the add call of ScreencopyDmabuf::new; offset and stride are not negative,
\* so `as u32` leaves them as they are
AddExport(p) ==
    ZwpLinuxBufferParamsAdd(p, p.export.fd, 0, p.export.offset, p.export.stride,
                            AsU32(Shr32(p.export.modifiers)),
                            AsU32(And64(p.export.modifiers, U32MaxAsU64)))

\* zwp_linux_dmabuf_v1_create_params, for what EGL exported
CreateParams(export) == [export |-> export, reqs |-> <<>>]

ParamsInit == \E export \in Exports : params = CreateParams(export)

ParamsAdd ==
    /\ params.reqs = <<>>
    /\ params' = AddExport(params)
    /\ UNCHANGED <<sc, app, ov, draw_buffer, conv, egl_ctx, gl_objs, packer, crops>>

ParamsNext == ParamsAdd

(***************************************************************************)
(* DrawBuffer (src/src/gfx.rs:340-513).                                    *)
(*                                                                         *)
(* A Vec2 is a pair <<x, y>> of integers; the lines pushed are parallel to *)
(* an axis or of length zero and the widths are even, so that every        *)
(* coordinate the code computes is an integer.                             *)
(*                                                                         *)
(* draw_buffer is a record:                                                *)
(*   vertices, indices, pending_indices, draw_commands   the struct        *)
(*   panic    "" or the message of the assert that failed                  *)
(*   calls    public calls made so far                                     *)
(*   ev       the last public call                                         *)
(***************************************************************************)
\* public calls on one DrawBuffer
MaxPushes == 2

Vec2(x, y) == <<x, y>>

Rect(min, max) == [min |-> min, max |-> max]

Rects == {Rect(Vec2(0, 0), Vec2(0, 0)), Rect(Vec2(0, 0), Vec2(4, 2))}

LinePoints == {Vec2(0, 0), Vec2(4, 0)}

LineWidths == {2}

Colors == {"red"}

WHITE == "white"

\* RectFill
RectFills == {[kind |-> "Color", value |-> "red"],
              [kind |-> "TextureHandle", value |-> 7]}

Sign(x) == IF x > 0 THEN 1 ELSE IF x < 0 THEN 0 - 1 ELSE 0

\* Vec2::normalize_or_zero, for a vector with a zero component
NormalizeOrZero(v) == Vec2(Sign(v[1]), Sign(v[2]))

\* Vec2::perp
Perp(v) == Vec2(0 - v[2], v[1])

\* compute_line_width_offset
ComputeLineWidthOffset(a, b, width) ==
    LET dir == Vec2(b[1] - a[1], b[2] - a[2])
        perp == Perp(NormalizeOrZero(dir))
    IN Vec2(perp[1] * (width \div 2), perp[2] * (width \div 2))

\* DrawBuffer::default
DrawBufferDefault ==
    [vertices |-> <<>>, indices |-> <<>>, pending_indices |-> 0,
     draw_commands |-> <<>>, panic |-> "", calls |-> 0, ev |-> "default"]

\* DrawBuffer::clear
Clear(d) ==
    IF d.pending_indices # 0
    THEN [d EXCEPT !.panic = "assertion failed: self.pending_indices == 0"]
    ELSE [d EXCEPT !.vertices = <<>>, !.indices = <<>>, !.draw_commands = <<>>]

\* DrawBuffer::push_vertex
PushVertex(d, position, tex_coord, color) ==
    [d EXCEPT !.vertices = Append(@, [position |-> position,
                                      tex_coord |-> tex_coord,
                                      color |-> color])]

\* push_triangle that counts a triangle as one pending index
PushTriangleCountsOne(d, zero, ichi, ni) ==
    [d EXCEPT !.indices = @ \o <<zero, ichi, ni>>,
              !.pending_indices = @ + 1]

\* DrawBuffer::push_triangle
PushTriangle(d, zero, ichi, ni) ==
    [d EXCEPT !.indices = @ \o <<zero, ichi, ni>>,
              !.pending_indices = @ + 3]

\* commit that pushes the command and keeps the indices pending
CommitKeepsPending(d, texture_handle) ==
    IF d.pending_indices = 0 THEN d
    ELSE [d EXCEPT !.draw_commands =
                       Append(@, [start_index |-> Len(d.indices) - d.pending_indices,
                                  end_index |-> Len(d.indices),
                                  texture_handle |-> texture_handle])]

\* DrawBuffer::commit
Commit(d, texture_handle) ==
    IF d.pending_indices = 0 THEN d
    ELSE [d EXCEPT !.draw_commands =
                       Append(@, [start_index |-> Len(d.indices) - d.pending_indices,
                                  end_index |-> Len(d.indices),
                                  texture_handle |-> texture_handle]),
                   !.pending_indices = 0]

\* the four corners and two triangles push_line and push_rect_filled share
PushQuad(d, tl, tr, br, bl, color) ==
    LET idx == Len(d.vertices)
        v1 == PushVertex(d, tl, Vec2(0, 0), color)
        v2 == PushVertex(v1, tr, Vec2(1, 0), color)
        v3 == PushVertex(v2, br, Vec2(1, 1), color)
        v4 == PushVertex(v3, bl, Vec2(0, 1), color)
        t1 == PushTriangle(v4, idx + 0, idx + 1, idx + 2)
    IN PushTriangle(t1, idx + 2, idx + 3, idx + 0)

\* DrawBuffer::push_line
PushLine(d, a, b, width, color) ==
    LET perp == ComputeLineWidthOffset(a, b, width)
    IN Commit(PushQuad(d, Vec2(a[1] - perp[1], a[2] - perp[2]),
                          Vec2(b[1] - perp[1], b[2] - perp[2]),
                          Vec2(b[1] + perp[1], b[2] + perp[2]),
                          Vec2(a[1] + perp[1], a[2] + perp[2]), color),
              None)

\* DrawBuffer::push_rect_filled
PushRectFilled(d, rect, fill) ==
    LET color == IF fill.kind = "Color" THEN fill.value ELSE WHITE
        texture_handle == IF fill.kind = "Color" THEN None ELSE Some(fill.value)
    IN Commit(PushQuad(d, rect.min, Vec2(rect.max[1], rect.min[2]),
                          rect.max, Vec2(rect.min[1], rect.max[2]), color),
              texture_handle)

\* DrawBuffer::push_rect_outlined
PushRectOutlined(d, rect, width, color) ==
    LET top_left == rect.min
        top_right == Vec2(rect.max[1], rect.min[2])
        bottom_right == rect.max
        bottom_left == Vec2(rect.min[1], rect.max[2])
        offset == width \div 2
        l1 == PushLine(d, Vec2(top_left[1] - width, top_left[2] - offset),
                          Vec2(top_right[1] + width, top_right[2] - offset),
                          width, color)
        l2 == PushLine(l1, Vec2(bottom_left[1] - width, bottom_left[2] + offset),
                           Vec2(bottom_right[1] + width, bottom_right[2] + offset),
                           width, color)
        l3 == PushLine(l2, Vec2(top_right[1] + offset, top_right[2]),
                           Vec2(bottom_right[1] + offset, bottom_right[2]),
                           width, color)
        l4 == PushLine(l3, Vec2(top_left[1] - offset, top_left[2]),
                           Vec2(bottom_left[1] - offset, bottom_left[2]),
                           width, color)
    IN Commit(l4, None)

\* DrawBuffer::push_rect
PushRect(d, rect, fill, outline_width, outline_color) ==
    LET f == IF IsSome(fill) THEN PushRectFilled(d, rect, Unwrap(fill)) ELSE d
    IN IF IsSome(outline_width) /\ IsSome(outline_color)
       THEN PushRectOutlined(f, rect, Unwrap(outline_width), Unwrap(outline_color))
       ELSE f

\* Option<T> over a set
Options(S) == {None} \cup {Some(x) : x \in S}

DrawBufferInit == draw_buffer = DrawBufferDefault

DbRunning == draw_buffer.panic = "" /\ draw_buffer.calls < MaxPushes

\* what a public call leaves, with the call recorded
Called(d, op) == [d EXCEPT !.calls = draw_buffer.calls + 1, !.ev = op]

DbPushLine ==
    /\ DbRunning
    /\ \E a \in LinePoints, b \in LinePoints, width \in LineWidths, color \in Colors :
         draw_buffer' = Called(PushLine(draw_buffer, a, b, width, color), "push_line")
    /\ UNCHANGED <<sc, app, ov, params, conv, egl_ctx, gl_objs, packer, crops>>

DbPushRectFilled ==
    /\ DbRunning
    /\ \E rect \in Rects, fill \in RectFills :
         draw_buffer' = Called(PushRectFilled(draw_buffer, rect, fill), "push_rect_filled")
    /\ UNCHANGED <<sc, app, ov, params, conv, egl_ctx, gl_objs, packer, crops>>

DbPushRectOutlined ==
    /\ DbRunning
    /\ \E rect \in Rects, width \in LineWidths, color \in Colors :
         draw_buffer' = Called(PushRectOutlined(draw_buffer, rect, width, color),
                               "push_rect_outlined")
    /\ UNCHANGED <<sc, app, ov, params, conv, egl_ctx, gl_objs, packer, crops>>

DbPushRect ==
    /\ DbRunning
    /\ \E rect \in Rects, fill \in Options(RectFills),
          width \in Options(LineWidths), color \in Options(Colors) :
         draw_buffer' = Called(PushRect(draw_buffer, rect, fill, width, color), "push_rect")
    /\ UNCHANGED <<sc, app, ov, params, conv, egl_ctx, gl_objs, packer, crops>>

\* the renderer clears the buffer once the frame is drawn
DbClear ==
    /\ draw_buffer.panic = ""
    /\ draw_buffer.ev # "clear"
    /\ draw_buffer' = [Clear(draw_buffer) EXCEPT !.ev = "clear"]
    /\ UNCHANGED <<sc, app, ov, params, conv, egl_ctx, gl_objs, packer, crops>>

DrawBufferNext ==
    \/ DbPushLine
    \/ DbPushRectFilled
    \/ DbPushRectOutlined
    \/ DbPushRect
    \/ DbClear

(***************************************************************************)
(* Size::to_physical followed by Size::to_logical (src/src/gfx.rs:151-165) *)
(*                                                                         *)
(* conv is a record:                                                       *)
(*   size       the logical size converted                                 *)
(*   scale      the numerator n of the scale factor n/120                  *)
(*   physical   None, or Some(size.to_physical(n as f64 / 120.0))          *)
(*   logical    None, or Some(physical.to_logical(n as f64 / 120.0))       *)
(***************************************************************************)
RoundTripScales == {1, 30, 39, 40, 41, 60, 90, 119, 120, 131, 144, 180, 240, 368}

RoundTripSizes ==
    {Size(w, h) : w \in {1, 2, 100, 1281, 1920}, h \in {1, 7, 8, 721, 1080}}

\* ((p as f64) / (n as f64 / 120.0)).round() as u32 for p >= 0, n >= 1.
\* The f64 quotient differs from 120*p/n by far less than 1/(2n), so the
\* result is 120*p/n rounded with halves away from zero unless 120*p/n is
\* exactly k + 1/2 and the quotient falls below it: the scale was rounded up
\* (d > 0) and the deficit exceeds half the spacing of the f64s below
\* k + 1/2, i.e. 8*d*(2k+1) > n * 2^(b-a) with 2^b <= k + 1/2 < 2^(b+1)
\* (half of that spacing again when k + 1/2 = 1/2, a power of two).
F64RoundUnscaled(p, n) ==
    LET exact == (2 * p * ScaleDenominator + n) \div (2 * n)
        half == (2 * p * ScaleDenominator) % (2 * n) = n
        k == (2 * p * ScaleDenominator - n) \div (2 * n)
        a == ScaleExponent(n)
        d == ScaleRoundingError(n)
        b == IF k = 0 THEN 0 - 2 ELSE Log2Floor(k)
        lhs == 8 * d * (2 * k + 1)
        below == IF b >= a THEN lhs > n * 2^(b - a)
                 ELSE lhs * 2^(a - b) > n
    IN IF half /\ d > 0 /\ below THEN exact - 1 ELSE exact

\* to_logical that truncates the quotient
ToLogicalTruncating(size, n) ==
    Size((size.width * ScaleDenominator) \div n, (size.height * ScaleDenominator) \div n)

\* Size::to_logical, the scale factor given by its numerator
ToLogical(size, n) ==
    Size(F64RoundUnscaled(size.width, n), F64RoundUnscaled(size.height, n))

NewConv(size, scale) ==
    [size |-> size, scale |-> scale, physical |-> None, logical |-> None]

ConvInit ==
    \E size \in RoundTripSizes, scale \in RoundTripScales : conv = NewConv(size, scale)

ConvToPhysical ==
    /\ IsNone(conv.physical)
    /\ conv' = [conv EXCEPT !.physical = Some(ToPhysical(conv.size, conv.scale))]
    /\ UNCHANGED <<sc, app, ov, params, draw_buffer, egl_ctx, gl_objs, packer, crops>>

ConvToLogical ==
    /\ IsSome(conv.physical)
    /\ IsNone(conv.logical)
    /\ conv' = [conv EXCEPT !.logical = Some(ToLogical(Unwrap(conv.physical), conv.scale))]
    /\ UNCHANGED <<sc, app, ov, params, draw_buffer, egl_ctx, gl_objs, packer, crops>>

ConvNext == ConvToPhysical \/ ConvToLogical

(***************************************************************************)
(* egl::Context::create (src/src/egl.rs:130-215).                          *)
(*                                                                         *)
(* The platform is a record: fails names the EGL call that returns its     *)
(* failure sentinel ("" for none), code is what GetError then reports,     *)
(* total the number of configs GetConfigs counts and matching the configs  *)
(* ChooseConfig would return, in the platform's order.                     *)
(*                                                                         *)
(* egl_ctx is a record:                                                    *)
(*   platform   as above                                                   *)
(*   calls      the EGL calls made, in order                               *)
(*   ret        None, or Some of what create returned                      *)
(***************************************************************************)
EglCalls ==
    <<"BindAPI", "GetDisplay", "Initialize", "GetConfigs", "ChooseConfig",
      "CreateContext", "MakeCurrent">>

EglCodes == {"EGL_BAD_ALLOC", "EGL_BAD_MATCH"}

EglConfigs == {"config_a", "config_b", "config_c"}

\* the config lists ChooseConfig may return: up to two configs, in any order
ConfigLists ==
    {<<>>} \cup {<<c>> : c \in EglConfigs}
           \cup {m \in EglConfigs \X EglConfigs : m[1] # m[2]}

Platforms ==
    {[fails |-> f, code |-> c, total |-> Len(m) + t, matching |-> m] :
        f \in {""} \cup {EglCalls[k] : k \in 1..Len(EglCalls)},
        c \in EglCodes, t \in {0, 1}, m \in ConfigLists}

\* Err(egl_lib.unwrap_err()).context(msg)
EglError(platform, msg) == [kind |-> "Raw", raw |-> platform.code, msg |-> msg]

\* the messages of create's checked calls
EglContexts ==
    [c \in {EglCalls[k] : k \in 1..Len(EglCalls)} |->
        CASE c = "BindAPI" -> "could not bind api"
          [] c = "GetDisplay" -> "could not get display"
          [] c = "Initialize" -> "could not initialize"
          [] c = "GetConfigs" -> "could not get number of available configs"
          [] c = "ChooseConfig" -> "could not choose config"
          [] c = "CreateContext" -> "could not create context"
          [] c = "MakeCurrent" -> "could not make current"]

\* a choice of the config listed last
LastConfig(configs) == configs[Len(configs)]

\* what `*configs.first().unwrap()` takes
FirstConfig(configs) == configs[1]

\* Context::create: the calls made and the value returned
RECURSIVE ContextCreateFrom(_, _, _)
ContextCreateFrom(platform, k, calls) ==
    LET call == EglCalls[k]
        made == Append(calls, call)
        configs == SubSeq(platform.matching, 1,
                          IF platform.total < Len(platform.matching)
                          THEN platform.total ELSE Len(platform.matching))
    IN IF platform.fails = call
       THEN [calls |-> made, ret |-> [ok |-> FALSE, err |-> EglError(platform, EglContexts[call])]]
       ELSE IF call = "ChooseConfig" /\ configs = <<>>
       THEN [calls |-> made,
             ret |-> [ok |-> FALSE,
                      err |-> [kind |-> "anyhow",
                               msg |-> "could not choose config (/ no compatible ones)"]]]
       ELSE IF call = "MakeCurrent"
       THEN [calls |-> made,
             ret |-> [ok |-> TRUE,
                      value |-> [display |-> "display",
                                 config |-> FirstConfig(configs),
                                 context |-> "context"]]]
       ELSE ContextCreateFrom(platform, k + 1, made)

ContextCreate(platform) == ContextCreateFrom(platform, 1, <<>>)

NewEgl(platform) == [platform |-> platform, calls |-> <<>>, ret |-> None]

EglInit == \E platform \in Platforms : egl_ctx = NewEgl(platform)

EglCreate ==
    /\ IsNone(egl_ctx.ret)
    /\ LET r == ContextCreate(egl_ctx.platform)
       IN egl_ctx' = [egl_ctx EXCEPT !.calls = r.calls, !.ret = Some(r.ret)]
    /\ UNCHANGED <<sc, app, ov, params, draw_buffer, conv, gl_objs, packer, crops>>

EglNext == EglCreate

(***************************************************************************)
(* gl::Shader and gl::Program (src/src/gl.rs:136-230).                     *)
(*                                                                         *)
(* The driver is a record: compiles[ty] and links say whether the          *)
(* compilation of a shader of type ty and the link succeed, log[stage] is  *)
(* the info log of the stage (a sequence of characters).                   *)
(*                                                                         *)
(* gl_objs is a record:                                                    *)
(*   driver    as above                                                    *)
(*   live      the handles created and not deleted                         *)
(*   made      handles created so far (handles are numbered from 1)        *)
(*   calls     the GL calls that create or delete a handle, in order       *)
(*   ret       None, or Some of what the last call returned                *)
(*   ev        the last call                                               *)
(***************************************************************************)
InfoLogs == {<<>>, <<"e", "r", "r">>, <<"0", ":", "1", " ", "x">>}

Drivers ==
    {[compiles |-> [VERTEX_SHADER |-> v, FRAGMENT_SHADER |-> f],
      links |-> l,
      log |-> [VERTEX_SHADER |-> lv, FRAGMENT_SHADER |-> lf, program |-> lp]] :
        v \in BOOLEAN, f \in BOOLEAN, l \in BOOLEAN,
        lv \in InfoLogs, lf \in InfoLogs, lp \in InfoLogs}

\* GetShaderiv / GetProgramiv with INFO_LOG_LENGTH: the terminator is counted
InfoLogLength(log) == IF log = <<>> THEN 0 ELSE Len(log) + 1

\* GetShaderInfoLog / GetProgramInfoLog into a buffer of buf_size bytes, and
\* msg.truncate to the length written
GetInfoLog(log, buf_size) ==
    IF buf_size = 0 THEN <<>>
    ELSE SubSeq(log, 1, IF Len(log) < buf_size - 1 THEN Len(log) ELSE buf_size - 1)

\* glCreateShader / glCreateProgram
GlCreate(g, kind) ==
    [g EXCEPT !.made = @ + 1,
              !.live = @ \cup {<<kind, g.made + 1>>},
              !.calls = Append(@, <<"Create", kind, g.made + 1>>)]

\* Drop for Shader / Drop for Program
GlDelete(g, handle) ==
    [g EXCEPT !.live = @ \ {handle},
              !.calls = Append(@, <<"Delete", handle[1], handle[2]>>)]

\* Shader::new: the state it leaves, with its result in ret
ShaderNew(g, ty) ==
    LET c == GlCreate(g, "shader")
        shader == <<"shader", c.made>>
    IN IF ~g.driver.compiles[ty]
       THEN [c EXCEPT !.ret = Some([ok |-> FALSE,
                                    err |-> GetInfoLog(g.driver.log[ty],
                                                       InfoLogLength(g.driver.log[ty]))])]
       ELSE [c EXCEPT !.ret = Some([ok |-> TRUE, value |-> shader])]

\* Program::new
ProgramNew(g) ==
    LET v == ShaderNew(g, "VERTEX_SHADER")
    IN IF ~Unwrap(v.ret).ok THEN v
       ELSE LET vert_shader == Unwrap(v.ret).value
                f == ShaderNew(v, "FRAGMENT_SHADER")
            IN IF ~Unwrap(f.ret).ok THEN GlDelete(f, vert_shader)
               ELSE LET frag_shader == Unwrap(f.ret).value
                        c == GlCreate(f, "program")
                        program == <<"program", c.made>>
                        r == IF ~g.driver.links
                             THEN [ok |-> FALSE,
                                   err |-> GetInfoLog(g.driver.log.program,
                                                      InfoLogLength(g.driver.log.program))]
                             ELSE [ok |-> TRUE, value |-> program]
                    IN [GlDelete(GlDelete(c, frag_shader), vert_shader)
                            EXCEPT !.ret = Some(r)]

NewGl(driver) ==
    [driver |-> driver, live |-> {}, made |-> 0, calls |-> <<>>,
     ret |-> None, ev |-> "none"]

GlInit == \E driver \in Drivers : gl_objs = NewGl(driver)

\* a caller compiles one shader
GlShaderNew ==
    /\ gl_objs.ev = "none"
    /\ \E ty \in {"VERTEX_SHADER", "FRAGMENT_SHADER"} :
         gl_objs' = [ShaderNew(gl_objs, ty) EXCEPT !.ev = "Shader::new"]
    /\ UNCHANGED <<sc, app, ov, params, draw_buffer, conv, egl_ctx, packer, crops>>

\* the renderer builds its program
GlProgramNew ==
    /\ gl_objs.ev = "none"
    /\ gl_objs' = [ProgramNew(gl_objs) EXCEPT !.ev = "Program::new"]
    /\ UNCHANGED <<sc, app, ov, params, draw_buffer, conv, egl_ctx, packer, crops>>

\* the caller drops the Shader or Program it was given
GlDrop ==
    /\ gl_objs.ev \in {"Shader::new", "Program::new"}
    /\ Unwrap(gl_objs.ret).ok
    /\ gl_objs' = [GlDelete(gl_objs, Unwrap(gl_objs.ret).value) EXCEPT !.ev = "drop"]
    /\ UNCHANGED <<sc, app, ov, params, draw_buffer, conv, egl_ctx, packer, crops>>

GlNext == GlShaderNew \/ GlProgramNew \/ GlDrop

(***************************************************************************)
(* TexturePacker (src/src/texturepacker.rs).                               *)
(*                                                                         *)
(* The tree (crate::ntree, which is not part of src/) is a sequence of     *)
(* nodes; a handle is a node's index, the root is node 1. A node holds its *)
(* TexturePackerEntry (x, y, w, h, in_use) and the links parent,           *)
(* first_child and next_sibling, each None or Some(handle).                *)
(*                                                                         *)
(* packer is a record:                                                     *)
(*   w, h       the texture size                                           *)
(*   ntree      the nodes                                                  *)
(*   ret        what the last insert returned: None or Some(handle)        *)
(*   ev         the last call and its arguments                            *)
(*   returned   the handles the successful inserts returned, in order      *)
(***************************************************************************)
\* insert calls on one packer
MaxInserts == 3

TextureSizes == {<<4, 4>>, <<6, 3>>}

InsertWidths == {1, 2, 4, 6, 7}

InsertHeights == {1, 2, 3, 4, 5}

TexturePackerEntry(x, y, w, h, in_use) ==
    [x |-> x, y |-> y, w |-> w, h |-> h, in_use |-> in_use]

NTreeNode(value, parent) ==
    [value |-> value, parent |-> parent, first_child |-> None, next_sibling |-> None]

\* NTree::new
NTreeNew(value) == <<NTreeNode(value, None)>>

\* NTree::insert_child_after: the new node becomes the first child of parent
\* when prev_sibling is None and the sibling after prev_sibling otherwise;
\* its handle is the next index
InsertChildAfter(ntree, parent, prev_sibling, value) ==
    LET new == Len(ntree) + 1
        node == NTreeNode(value, Some(parent))
    IN IF IsNone(prev_sibling)
       THEN Append([ntree EXCEPT ![parent].first_child = Some(new)],
                   [node EXCEPT !.next_sibling = ntree[parent].first_child])
       ELSE Append([ntree EXCEPT ![Unwrap(prev_sibling)].next_sibling = Some(new)],
                   [node EXCEPT !.next_sibling = ntree[Unwrap(prev_sibling)].next_sibling])

\* TexturePacker::is_leaf
IsLeaf(ntree, handle) ==
    \/ IsNone(ntree[handle].first_child)
    \/ IsNone(ntree[Unwrap(ntree[handle].first_child)].next_sibling)

\* a check that also turns away a width that fits exactly
TooSmallStrict(width, height, slot) == width >= slot.w \/ height > slot.h

\* `width > cache_slot_width || height > cache_slot_height`
TooSmall(width, height, slot) == width > slot.w \/ height > slot.h

\* an acceptance that leaves the region unmarked
AcceptUnmarked(ntree, handle) == ntree

\* `self.ntree.get_mut(handle).value.in_use = true`
Accept(ntree, handle) == [ntree EXCEPT ![handle].value.in_use = TRUE]

\* a split along x whose right child starts where the left one does
SplitAlongXOverlapping(ntree, handle, width) ==
    LET entry == ntree[handle].value
        left == InsertChildAfter(ntree, handle, None,
                                 TexturePackerEntry(entry.x, entry.y, width, entry.h, FALSE))
    IN InsertChildAfter(left, handle, Some(Len(left)),
                        TexturePackerEntry(entry.x, entry.y, entry.w - width,
                                           entry.h, FALSE))

\* insert_at, "split along x": the two children, left first
SplitAlongX(ntree, handle, width) ==
    LET entry == ntree[handle].value
        left == InsertChildAfter(ntree, handle, None,
                                 TexturePackerEntry(entry.x, entry.y, width, entry.h, FALSE))
    IN InsertChildAfter(left, handle, Some(Len(left)),
                        TexturePackerEntry(entry.x + width, entry.y, entry.w - width,
                                           entry.h, FALSE))

\* insert_at, "split along y"
SplitAlongY(ntree, handle, height) ==
    LET entry == ntree[handle].value
        left == InsertChildAfter(ntree, handle, None,
                                 TexturePackerEntry(entry.x, entry.y, entry.w, height, FALSE))
    IN InsertChildAfter(left, handle, Some(Len(left)),
                        TexturePackerEntry(entry.x, entry.y + height, entry.w,
                                           entry.h - height, FALSE))

\* TexturePacker::insert_at: the tree it leaves and the handle it returns.
\* Its asserts about the two new children hold by InsertChildAfter.
RECURSIVE InsertAt(_, _, _, _)
InsertAt(ntree, width, height, handle) ==
    IF ~IsLeaf(ntree, handle)
    THEN LET left_child_handle == Unwrap(ntree[handle].first_child)
             new_handle == InsertAt(ntree, width, height, left_child_handle)
         IN IF IsSome(new_handle.ret) THEN new_handle
            ELSE InsertAt(new_handle.ntree, width, height,
                          Unwrap(new_handle.ntree[left_child_handle].next_sibling))
    ELSE LET slot == ntree[handle].value
         IN IF slot.in_use THEN [ntree |-> ntree, ret |-> None]
            ELSE IF TooSmall(width, height, slot) THEN [ntree |-> ntree, ret |-> None]
            ELSE IF width = slot.w /\ height = slot.h
            THEN [ntree |-> Accept(ntree, handle), ret |-> Some(handle)]
            ELSE LET dw == slot.w - width
                     dh == slot.h - height
                     split == IF dw > dh THEN SplitAlongX(ntree, handle, width)
                              ELSE SplitAlongY(ntree, handle, height)
                 IN InsertAt(split, width, height, Len(ntree) + 1)

\* TexturePacker::new
TexturePackerNew(texture_width, texture_height) ==
    [w |-> texture_width, h |-> texture_height,
     ntree |-> NTreeNew(TexturePackerEntry(0, 0, texture_width, texture_height, FALSE)),
     ret |-> None, ev |-> [op |-> "new", width |-> 0, height |-> 0],
     returned |-> <<>>, calls |-> 0]

\* TexturePacker::insert
Insert(t, width, height) ==
    LET r == InsertAt(t.ntree, width, height, 1)
    IN [t EXCEPT !.ntree = r.ntree,
                 !.ret = r.ret,
                 !.returned = IF IsSome(r.ret) THEN Append(@, Unwrap(r.ret)) ELSE @]

PackerInit == \E size \in TextureSizes : packer = TexturePackerNew(size[1], size[2])

PackerInsert ==
    /\ packer.calls < MaxInserts
    /\ \E width \in InsertWidths, height \in InsertHeights :
         packer' = [Insert(packer, width, height) EXCEPT
                      !.calls = @ + 1,
                      !.ev = [op |-> "insert", width |-> width, height |-> height]]
    /\ UNCHANGED <<sc, app, ov, params, draw_buffer, conv, egl_ctx, gl_objs, crops>>

PackerNext == PackerInsert

(***************************************************************************)
(* The crop selection: src/src/crop.rs, and App::update_all_screens        *)
(* (src/src/main.rs:453-494).                                              *)
(*                                                                         *)
(* Coordinates are f32 in the code; here they are integers counting halves *)
(* of a logical unit, so that HANDLE_SIZE / 2.0 = 6.5 is an integer.       *)
(*                                                                         *)
(* crops is a record:                                                      *)
(*   screens    the Crop of each screen: view_rect, crop_rect, handle,     *)
(*              cursor (Options)                                           *)
(*   ev         the last event and the screen it was routed to             *)
(*   mutated    what Crop::update returned for it                          *)
(*   calls      the number of events handled                               *)
(*   before     history: the screens' crops before the last event          *)
(***************************************************************************)
\* input events routed through update_all_screens
MaxCropEvents == 3

\* theme::HANDLE_SIZE = 13.0
HANDLE_SIZE == 26

\* the 1.0 of `size.x < 1.0 || size.y < 1.0`
MinCropExtent == 2

\* every screen's view rectangle: 40 x 30 logical units
CropViewRect == Rect(Vec2(0, 0), Vec2(80, 60))

\* pointer positions: inside the view, inside at half a unit, and outside
CropPoints == {Vec2(20, 20), Vec2(41, 31), Vec2(100, 20)}

\* pointer motions: a drag, half a unit, a drag past the top-left corner
CropDeltas == {Vec2(21, 11), Vec2(1, 1), Vec2(0 - 40, 0 - 40)}

PointerEvent(kind, position, delta) ==
    [type |-> "Pointer", kind |-> kind, position |-> position, delta |-> delta]

KeyboardEvent(kind) ==
    [type |-> "Keyboard", kind |-> kind, position |-> Vec2(0, 0), delta |-> Vec2(0, 0)]

CropEvents ==
    {PointerEvent("Press", p, Vec2(0, 0)) : p \in CropPoints}
    \cup {PointerEvent("Release", Vec2(20, 20), Vec2(0, 0))}
    \cup {PointerEvent("Motion", Vec2(41, 31), d) : d \in CropDeltas}
    \cup {KeyboardEvent("CtrlA"), KeyboardEvent("Other")}

Min(a, b) == IF a < b THEN a ELSE b

Max(a, b) == IF a > b THEN a ELSE b

\* Vec2 + Vec2
VecAdd(a, b) == Vec2(a[1] + b[1], a[2] + b[2])

\* Rect::from_center_size
FromCenterSize(center, size) ==
    LET radius == size \div 2
    IN Rect(Vec2(center[1] - radius, center[2] - radius),
            Vec2(center[1] + radius, center[2] + radius))

\* Rect::contains
Contains(rect, p) ==
    /\ p[1] >= rect.min[1] /\ p[1] <= rect.max[1]
    /\ p[2] >= rect.min[2] /\ p[2] <= rect.max[2]

\* Rect::normalize
Normalize(rect) ==
    Rect(Vec2(Min(rect.min[1], rect.max[1]), Min(rect.min[2], rect.max[2])),
         Vec2(Max(rect.min[1], rect.max[1]), Max(rect.min[2], rect.max[2])))

\* Rect::constrain_to
ConstrainTo(rect, other) ==
    Rect(Vec2(Max(rect.min[1], other.min[1]), Max(rect.min[2], other.min[2])),
         Vec2(Min(rect.max[1], other.max[1]), Min(rect.max[2], other.max[2])))

\* Rect::translate
Translate(rect, delta) == Rect(VecAdd(rect.min, delta), VecAdd(rect.max, delta))

\* Rect::size
RectSize(rect) == Vec2(rect.max[1] - rect.min[1], rect.max[2] - rect.min[2])

\* Rect::set_top_left(top_left() + delta) and its three siblings
MoveCorner(rect, handle, delta) ==
    CASE handle = "TopLeft" -> Rect(VecAdd(rect.min, delta), rect.max)
      [] handle = "TopRight" ->
            Rect(Vec2(rect.min[1], rect.min[2] + delta[2]),
                 Vec2(rect.max[1] + delta[1], rect.max[2]))
      [] handle = "BottomRight" -> Rect(rect.min, VecAdd(rect.max, delta))
      [] handle = "BottomLeft" ->
            Rect(Vec2(rect.min[1] + delta[1], rect.min[2]),
                 Vec2(rect.max[1], rect.max[2] + delta[2]))
      [] handle = "Inside" -> Translate(rect, delta)

\* pointer_on_handle
PointerOnHandle(rect, pointer_position) ==
    IF Contains(FromCenterSize(rect.min, HANDLE_SIZE), pointer_position)
    THEN Some("TopLeft")
    ELSE IF Contains(FromCenterSize(Vec2(rect.max[1], rect.min[2]), HANDLE_SIZE),
                     pointer_position)
    THEN Some("TopRight")
    ELSE IF Contains(FromCenterSize(rect.max, HANDLE_SIZE), pointer_position)
    THEN Some("BottomRight")
    ELSE IF Contains(FromCenterSize(Vec2(rect.min[1], rect.max[2]), HANDLE_SIZE),
                     pointer_position)
    THEN Some("BottomLeft")
    ELSE IF Contains(rect, pointer_position) THEN Some("Inside")
    ELSE None

\* HandleType::cursor_shape
CursorShape(handle) ==
    CASE handle = "TopLeft" -> "NwResize"
      [] handle = "TopRight" -> "NeResize"
      [] handle = "BottomRight" -> "SeResize"
      [] handle = "BottomLeft" -> "SwResize"
      [] handle = "Inside" -> "Move"

\* Crop::default
CropDefault ==
    [view_rect |-> None, crop_rect |-> None, handle |-> None, cursor |-> None]

\* Crop::update, Press arm
CropPress(c, position) ==
    LET hit == IF IsSome(c.crop_rect)
               THEN PointerOnHandle(Unwrap(c.crop_rect), position)
               ELSE c.handle
        kept == IF IsSome(c.crop_rect) /\ IsNone(hit)
                THEN [c EXCEPT !.handle = hit, !.crop_rect = None]
                ELSE [c EXCEPT !.handle = hit]
    IN IF IsNone(kept.crop_rect)
       THEN [kept EXCEPT !.crop_rect = Some(FromCenterSize(position, 0)),
                         !.handle = Some("BottomRight")]
       ELSE kept

\* a Release arm that keeps a crop smaller than one unit
CropReleaseKeepsSmall(c, view_rect) ==
    IF IsNone(c.crop_rect) THEN [c EXCEPT !.handle = None]
    ELSE [c EXCEPT !.crop_rect =
                       Some(ConstrainTo(Normalize(Unwrap(c.crop_rect)), view_rect)),
                   !.handle = None]

\* Crop::update, Release arm
CropRelease(c, view_rect) ==
    IF IsNone(c.crop_rect) THEN [c EXCEPT !.handle = None]
    ELSE LET crop_rect == ConstrainTo(Normalize(Unwrap(c.crop_rect)), view_rect)
             size == RectSize(crop_rect)
         IN [c EXCEPT !.crop_rect = IF size[1] < MinCropExtent \/ size[2] < MinCropExtent
                                    THEN None ELSE Some(crop_rect),
                      !.handle = None]

\* Crop::update, Motion arm
CropMotion(c, delta) ==
    IF IsSome(c.crop_rect) /\ IsSome(c.handle)
    THEN [c EXCEPT !.crop_rect = Some(MoveCorner(Unwrap(c.crop_rect), Unwrap(c.handle), delta))]
    ELSE c

\* Crop::update: the crop it leaves and the bool it returns
CropUpdate(c, view_rect, event) ==
    LET viewed == [c EXCEPT !.view_rect = Some(view_rect)]
        handled ==
            IF event.type = "Pointer"
            THEN LET m == CASE event.kind = "Press" -> CropPress(viewed, event.position)
                            [] event.kind = "Release" -> CropRelease(viewed, view_rect)
                            [] event.kind = "Motion" -> CropMotion(viewed, event.delta)
                            [] OTHER -> viewed
                     on == IF IsSome(m.crop_rect)
                           THEN PointerOnHandle(Normalize(Unwrap(m.crop_rect)), event.position)
                           ELSE None
                 IN [m EXCEPT !.cursor = IF IsSome(on) THEN Some(CursorShape(Unwrap(on)))
                                         ELSE Some("Crosshair")]
            ELSE IF event.kind = "CtrlA"
            THEN [viewed EXCEPT !.crop_rect = Some(view_rect), !.cursor = Some("Move")]
            ELSE viewed
    IN [crop |-> handled, mutated |-> handled.crop_rect # c.crop_rect]

\* update_all_screens that leaves the crops of the other screens alone
UpdateCropsKeepsOthers(screens, screen_idx, event) ==
    LET r == CropUpdate(screens[screen_idx], CropViewRect, event)
    IN [screens |-> [screens EXCEPT ![screen_idx] = r.crop], mutated |-> r.mutated]

\* App::update_all_screens for an event whose surface is that of screen_idx
UpdateCrops(screens, screen_idx, event) ==
    LET r == CropUpdate(screens[screen_idx], CropViewRect, event)
    IN [screens |-> [other_idx \in 1..Len(screens) |->
                        IF other_idx = screen_idx THEN r.crop
                        ELSE IF r.mutated THEN CropDefault
                        ELSE screens[other_idx]],
        mutated |-> r.mutated]

\* the screens of main, no input event handled yet
NewCrops ==
    [screens |-> [i \in 1..MaxScreens |-> CropDefault],
     ev |-> [event |-> KeyboardEvent("none"), screen_idx |-> 0],
     mutated |-> FALSE,
     calls |-> 0,
     before |-> [i \in 1..MaxScreens |-> CropDefault]]

CropInit == crops = NewCrops

\* main's loop pops an input event and routes it to the screen it is for
CropEvent ==
    /\ crops.calls < MaxCropEvents
    /\ \E screen_idx \in 1..MaxScreens, event \in CropEvents :
         LET r == UpdateCrops(crops.screens, screen_idx, event)
         IN crops' = [screens |-> r.screens,
                      ev |-> [event |-> event, screen_idx |-> screen_idx],
                      mutated |-> r.mutated,
                      calls |-> crops.calls + 1,
                      before |-> crops.screens]
    /\ UNCHANGED <<sc, app, ov, params, draw_buffer, conv, egl_ctx, gl_objs, packer>>

CropNext == CropEvent

(***************************************************************************)
(* Specifications: one per subsystem; the other subsystems stay idle.      *)
(***************************************************************************)
ParamsIdle == params = CreateParams(Export(5, 0, 3200, <<0, 0, 0, 0>>))

ConvIdle == conv = NewConv(Size(1, 1), ScaleDenominator)

EglIdle ==
    egl_ctx = NewEgl([fails |-> "", code |-> "EGL_BAD_ALLOC", total |-> 1,
                      matching |-> <<"config_a">>])

GlIdle ==
    gl_objs = NewGl([compiles |-> [VERTEX_SHADER |-> TRUE, FRAGMENT_SHADER |-> TRUE],
                     links |-> TRUE,
                     log |-> [VERTEX_SHADER |-> <<>>, FRAGMENT_SHADER |-> <<>>,
                              program |-> <<>>]])

PackerIdle == packer = TexturePackerNew(4, 4)

CropIdle == crops = NewCrops

LibsIdle == ParamsIdle /\ DrawBufferInit /\ ConvIdle /\ EglIdle /\ GlIdle /\ PackerIdle /\ CropIdle

ScIdle == sc = ScreencopyNewBoxed(TRUE, TRUE)

AppIdle == app = NewApp(0, TRUE, TRUE, <<TRUE, TRUE, TRUE, TRUE>>)

OvIdle == ov = OverlayNewBoxed

MainIdle == ScIdle /\ AppIdle /\ OvIdle

InitCapture == ScInit /\ AppIdle /\ OvIdle /\ LibsIdle

SpecCapture == InitCapture /\ [][ScNext]_vars

InitApp == ScIdle /\ AppInit /\ OvIdle /\ LibsIdle

SpecApp == InitApp /\ [][AppNext]_vars

InitOverlay == ScIdle /\ AppIdle /\ OvInit /\ LibsIdle

SpecOverlay == InitOverlay /\ [][OvNext]_vars

InitPresent == ScIdle /\ PresentInit /\ OvIdle /\ LibsIdle

InitParams == MainIdle /\ ParamsInit /\ DrawBufferInit /\ ConvIdle /\ EglIdle /\ GlIdle /\ PackerIdle /\ CropIdle

SpecParams == InitParams /\ [][ParamsNext]_vars

InitDrawBuffer == MainIdle /\ ParamsIdle /\ DrawBufferInit /\ ConvIdle /\ EglIdle /\ GlIdle /\ PackerIdle /\ CropIdle

SpecDrawBuffer == InitDrawBuffer /\ [][DrawBufferNext]_vars

InitConv == MainIdle /\ ParamsIdle /\ DrawBufferInit /\ ConvInit /\ EglIdle /\ GlIdle /\ PackerIdle /\ CropIdle

SpecConv == InitConv /\ [][ConvNext]_vars

InitEgl == MainIdle /\ ParamsIdle /\ DrawBufferInit /\ ConvIdle /\ EglInit /\ GlIdle /\ PackerIdle /\ CropIdle

SpecEgl == InitEgl /\ [][EglNext]_vars

InitGl == MainIdle /\ ParamsIdle /\ DrawBufferInit /\ ConvIdle /\ EglIdle /\ GlInit /\ PackerIdle /\ CropIdle

SpecGl == InitGl /\ [][GlNext]_vars

InitPacker ==
    MainIdle /\ ParamsIdle /\ DrawBufferInit /\ ConvIdle /\ EglIdle /\ GlIdle /\ PackerInit
    /\ CropIdle

SpecPacker == InitPacker /\ [][PackerNext]_vars

InitCrop ==
    MainIdle /\ ParamsIdle /\ DrawBufferInit /\ ConvIdle /\ EglIdle /\ GlIdle /\ PackerIdle
    /\ CropInit

SpecCrop == InitCrop /\ [][CropNext]_vars

SpecPresent == InitPresent /\ [][PresentNext]_vars

\* main calls overlay_all_screens; as in SpecPresent, the overlays are set
\* up over captures whose events came in protocol order
BarrierOverlayIssue ==
    /\ app.pc = "capture_ok"
    /\ app.linux_dmabuf
    /\ \A i \in 1..Len(app.screens) :
          /\ app.screens[i].built = 1
          /\ app.screens[i].frame.ndesc = 1
          /\ Unwrap(Unwrap(app.screens[i].screencopy).dmabuf_desc).width = 1920
    /\ AppOverlayIssue

\* main from the call of capture_all_screens to the return of
\* overlay_all_screens (main.rs:1296-1297)
BarrierNext ==
    \/ AppNext
    \/ BarrierOverlayIssue
    \/ AppOverlayScan
    \/ app.pc = "overlay_dispatch" /\ AppLayerConfigure
    \/ app.pc = "overlay_dispatch" /\ AppPreferredScale
    \/ app.pc = "overlay_dispatch" /\ AppFrameDone
    \/ app.pc = "overlay_dispatch" /\ AppPresentDispatchError
    \/ AppOverlayDispatchReturn

\* the steps the program takes by itself: the calls, the scans of the two
\* loops and the return of a blocking_dispatch that has events to deliver
ProgramStep ==
    \/ AppCaptureIssue
    \/ AppCaptureScan
    \/ AppDispatchReturn
    \/ BarrierOverlayIssue
    \/ AppOverlayScan
    \/ AppOverlayDispatchReturn

SpecBarriers ==
    (InitApp \/ InitPresent) /\ [][BarrierNext]_vars /\ WF_vars(ProgramStep)

Init == ScInit /\ AppInit /\ OvInit /\ ParamsInit /\ DrawBufferInit /\ ConvInit /\ EglInit /\ GlInit /\ PackerInit /\ CropInit

Next == ScNext \/ AppNext \/ PresentNext \/ OvNext \/ ParamsNext \/ DrawBufferNext \/ ConvNext \/ EglNext \/ GlNext \/ PackerNext \/ CropNext

Spec == Init /\ [][Next]_vars



(***************************************************************************)
(* Properties of the capture session (SpecCapture)                         *)
(***************************************************************************)

\* C1 (as stated): in every reachable state the imported unit is present
\* only when the session state is Ready.
C1_ImportedOnlyWhenReady ==
    IsSome(sc.dmabuf) => sc.state = "Ready"

\* C1 (amended): the imported unit is present only when a descriptor is
\* stored and a buffer-negotiation-complete event has been handled since that
\* descriptor was stored; the state is then Pending, Ready or Failed.
C1_ImportedOnlyAfterBufferDone ==
    IsSome(sc.dmabuf) => IsSome(sc.dmabuf_desc) /\ sc.done_since_desc

\* the unit has just been built by buffer_done and the session is still Pending
C1_Witness ==
    /\ sc.ev.kind = "buffer_done"
    /\ ~sc.ev.had
    /\ IsSome(sc.dmabuf)
    /\ sc.state = "Pending"

C3_PendingAfterCapture ==
    sc.ev.kind = "capture" => sc.state = "Pending"

\* C4: a descriptor event with a triple equal to the stored descriptor leaves
\* the descriptor and the imported unit (its identity) unchanged; a triple
\* that differs stores the new descriptor and makes the imported unit absent.
C4_InvalidatedExactlyOnInequality ==
    [][sc.ev'.kind = "linux_dmabuf" =>
          LET t == Unwrap(sc.ev'.desc)
          IN IF sc.dmabuf_desc = Some(t)
             THEN sc.dmabuf_desc' = sc.dmabuf_desc /\ sc.dmabuf' = sc.dmabuf
             ELSE sc.dmabuf_desc' = Some(t) /\ sc.dmabuf' = None]_vars

\* a descriptor event of a re-armed session has just invalidated an import
C4_Witness ==
    /\ sc.ev.kind = "linux_dmabuf"
    /\ sc.ev.had
    /\ IsNone(sc.dmabuf)
    /\ sc.dmabuf_desc = sc.ev.desc

\* C6: whenever an imported unit exists, its (format, width, height) is the
\* stored descriptor and the triple of the latest descriptor event.
C6_ImportMatchesLatestDescriptor ==
    IsSome(sc.dmabuf) =>
        /\ IsSome(sc.dmabuf_desc)
        /\ ScreencopyDmabufDescriptor(Unwrap(sc.dmabuf).format,
                                      Unwrap(sc.dmabuf).width,
                                      Unwrap(sc.dmabuf).height) = Unwrap(sc.dmabuf_desc)
        /\ sc.last_desc_event = sc.dmabuf_desc

\* a second unit, built after a renegotiation to another size
C6_Witness ==
    /\ IsSome(sc.dmabuf)
    /\ Unwrap(sc.dmabuf).id = 2
    /\ Unwrap(sc.dmabuf).width = 1920



(***************************************************************************)
(* Properties of the orchestrator (SpecApp)                                *)
(***************************************************************************)
Screencopy(i) == Unwrap(app.screens[i].screencopy)

ScreencopyFailed ==
    /\ app.pc = "capture_err"
    /\ Unwrap(app.result).msg = "screencopy failed"

\* C5: a descriptor event that changes the stored descriptor leaves the
\* session without an imported unit; the replacement is not built by it.
C5_DescriptorOnlyInvalidates ==
    [][\A i \in 1..Len(app.screens) :
          (/\ IsSome(app.screens[i].screencopy)
           /\ Unwrap(app.screens[i].screencopy').dmabuf_desc
                 # Unwrap(app.screens[i].screencopy).dmabuf_desc)
          => IsNone(Unwrap(app.screens[i].screencopy').dmabuf)]_vars

\* C7: a scan that finds a Failed session returns the error at once, leaving
\* every screen as it is (no capture re-issued, nothing rolled back); a
\* session that reached Ready stays Ready and holds its imported texture.
C7_BatchFailsWithoutRollback ==
    [][/\ (app.pc = "capture_scan"
           /\ \E i \in 1..Len(app.screens) : Screencopy(i).state = "Failed")
          => /\ app.pc' = "capture_err"
             /\ app.result' = Some(AnyhowError("screencopy failed"))
             /\ app.screens' = app.screens
       /\ \A i \in 1..Len(app.screens) :
             (IsSome(app.screens[i].screencopy) /\ Screencopy(i).state = "Ready")
             => /\ Unwrap(app.screens[i].screencopy').state = "Ready"
                /\ IsSome(Unwrap(app.screens[i].screencopy').dmabuf)
                /\ Unwrap(app.screens[i].screencopy').dmabuf = Screencopy(i).dmabuf]_vars

\* the batch has failed while another output is Ready with its texture
C7_Witness ==
    /\ ScreencopyFailed
    /\ \E i, j \in 1..Len(app.screens) :
         /\ Screencopy(i).state = "Failed"
         /\ Screencopy(j).state = "Ready"
         /\ IsSome(Screencopy(j).dmabuf)

\* C8: when the batch fails with one output Ready and another Failed, the
\* error identifies the index of the Failed output.
C8_ErrorIdentifiesFailedIndex ==
    (/\ ScreencopyFailed
     /\ \E j \in 1..Len(app.screens) : Screencopy(j).state = "Ready")
    => \E i \in 1..Len(app.screens) :
          /\ Screencopy(i).state = "Failed"
          /\ Unwrap(app.result).idx = Some(i)

\* C9: the batch returns success only when every session is Ready, and a
\* scan that finds a Pending session and no Failed one goes back to
\* blocking_dispatch without returning.
C9_SuccessOnlyWhenAllReady ==
    [][/\ app.pc' = "capture_ok"
          => /\ app.result' = Some(OkResult)
             /\ \A i \in 1..Len(app.screens') :
                   Unwrap(app.screens[i].screencopy').state = "Ready"
       /\ (/\ app.pc = "capture_scan"
           /\ \E i \in 1..Len(app.screens) : Screencopy(i).state = "Pending"
           /\ \A i \in 1..Len(app.screens) : Screencopy(i).state # "Failed")
          => /\ app.pc' = "capture_dispatch"
             /\ app.result' = None]_vars

\* the batch has succeeded for two outputs
C9_Witness ==
    /\ app.pc = "capture_ok"
    /\ Len(app.screens) >= 2
    /\ \A i \in 1..Len(app.screens) : Screencopy(i).state = "Ready"

(***************************************************************************)
(* Properties of the overlay (SpecOverlay)                                 *)
(***************************************************************************)

\* C10: a window surface (and a native window) exists only if the first
\* configure has been acknowledged and a logical size is known; before any
\* configure event, preferred-scale events create neither.
C10_WindowSurfaceOnlyAfterAck ==
    /\ (IsSome(ov.window_surface) \/ IsSome(ov.window))
          => /\ ov.acked_first_configure
             /\ IsSome(ov.logical_size)
             /\ \E k \in 1..Len(ov.reqs) : ov.reqs[k].op = "ack_configure"
    /\ ov.nconf = 0 => IsNone(ov.window_surface) /\ IsNone(ov.window)

\* scale 144/120 arrived before the first configure (1920x1080), which then
\* created the window surface
C10_Witness ==
    /\ IsSome(ov.window_surface)
    /\ ov.nconf = 1
    /\ ov.nscale = 1
    /\ Unwrap(ov.window).width = 2304


\* C12: when the first configure with logical size (w, h) creates the window
\* surface, exactly one native window exists and its physical size is
\* (round(w*n/120), round(h*n/120)), halves rounded away from zero, n being
\* the numerator of the latest preferred-scale event before that configure,
\* or 120 if there was none.
C12_PhysicalSizeIsExactRounding ==
    [][(IsNone(ov.window) /\ IsSome(ov.window_surface'))
          => LET n == IF IsSome(ov.fractional_scale) THEN Unwrap(ov.fractional_scale)
                      ELSE ScaleDenominator
                 expected == ToPhysicalExact(Unwrap(ov.logical_size'), n)
             IN /\ ov.created' = 1
                /\ Size(Unwrap(ov.window').width, Unwrap(ov.window').height) = expected]_vars

\* the kinds of request that destroy an object of the overlay
DestroyOps ==
    {"DestroySurface", "wl_egl_window_destroy", "wp_viewport_destroy",
     "zwlr_layer_surface_v1_destroy", "wl_surface_destroy"}

\* C14: the teardown of an overlay destroys, in this order, the window
\* surface (if created), the native window (if created), the viewport, the
\* layer role object (only if it is still present) and the base surface, and
\* over the overlay's whole life no object is destroyed twice.
C14_TeardownOrder ==
    [][(~ov.dropped /\ ov.dropped')
          => LET tail == SubSeq(ov.reqs', Len(ov.reqs) + 1, Len(ov.reqs'))
                 expected ==
                     (IF IsSome(ov.window_surface) THEN <<"DestroySurface">> ELSE <<>>)
                     \o (IF IsSome(ov.window) THEN <<"wl_egl_window_destroy">> ELSE <<>>)
                     \o <<"wp_viewport_destroy">>
                     \o (IF IsSome(ov.layer_surface)
                         THEN <<"zwlr_layer_surface_v1_destroy">> ELSE <<>>)
                     \o <<"wl_surface_destroy">>
             IN /\ [i \in 1..Len(tail) |-> tail[i].op] = expected
                /\ \A op \in DestroyOps :
                      Cardinality({i \in 1..Len(ov.reqs') : ov.reqs'[i].op = op}) <= 1]_vars

\* an overlay with a window surface was hidden and later torn down: the
\* teardown destroyed four objects, the layer role object not among them
C14_Witness ==
    /\ ov.dropped
    /\ Len(ov.reqs) >= 5
    /\ [i \in 1..4 |-> ov.reqs[Len(ov.reqs) - 4 + i].op] =
          <<"DestroySurface", "wl_egl_window_destroy", "wp_viewport_destroy",
            "wl_surface_destroy">>
    /\ \E i \in 1..(Len(ov.reqs) - 4) : ov.reqs[i].op = "zwlr_layer_surface_v1_destroy"

(***************************************************************************)
(* Properties of the orchestrator's overlay phase (SpecPresent)            *)
(***************************************************************************)

\* C11: once an output's window surface exists, no preferred-scale event and
\* no later configure event creates another one or replaces the window
\* surface or the native window (until the screens are torn down).
C11_WindowSurfaceCreatedOnce ==
    [][\A i \in 1..Len(app.screens) :
          (i <= Len(app.screens') /\ IsSome(app.screens[i].egl_window_surface))
          => /\ app.screens'[i].egl_window_surface = app.screens[i].egl_window_surface
             /\ app.screens'[i].egl_window = app.screens[i].egl_window
             /\ app.screens'[i].windows = app.screens[i].windows]_vars

\* C13: a frame is presented for an output only when every output's capture
\* is Ready and every output's overlay has received its first configure.
C13_NoFrameBeforeAllConverged ==
    [][\A i \in 1..Len(app.screens) :
          (i <= Len(app.screens') /\ app.screens'[i].presented > app.screens[i].presented)
          => \A j \in 1..Len(app.screens') :
                /\ IsSome(app.screens'[j].screencopy)
                /\ Unwrap(app.screens'[j].screencopy).state = "Ready"
                /\ app.screens'[j].windows >= 1]_vars

\* C15: hiding the overlays (the first part of a copy request) destroys only
\* the layer role object of every output; the window surface, the native
\* window and the captured texture are destroyed only by the teardown that
\* follows the readback, the base surface and the viewport not before it,
\* and over the hide and the teardown each layer role object is destroyed
\* exactly once.
C15_HideDestroysOnlyLayerRole ==
    [][(~app.copy /\ app.copy' /\ app.panic' = "")
          => LET n == Len(app.screens)
                 tail == SubSeq(app.trace', Len(app.trace) + 1, Len(app.trace'))
             IN /\ Len(tail) >= n + 2
                /\ \A i \in 1..n : tail[i] = Op("zwlr_layer_surface_v1_destroy", i)
                /\ tail[n + 1].op = "draw_screen"
                /\ tail[n + 2].op = "read_pixels"
                /\ \A k \in (n + 3)..Len(tail) :
                      tail[k].op \in {"DeleteTextures", "DestroyImageKHR",
                                      "wl_egl_window_destroy", "DestroySurface"}
                /\ \A i \in 1..n :
                      Cardinality({k \in 1..Len(app.trace') :
                                      app.trace'[k] = Op("zwlr_layer_surface_v1_destroy", i)}) = 1]_vars

\* a copy request on two configured outputs has hidden both overlays, read
\* the pixels back and torn the screens down
C15_Witness ==
    /\ app.copy
    /\ app.panic = ""
    /\ app.screens = <<>>
    /\ \E k \in 1..Len(app.trace) : app.trace[k] = Op("zwlr_layer_surface_v1_destroy", 2)
    /\ \E k \in 1..Len(app.trace) : app.trace[k] = Op("DeleteTextures", 2)
    /\ \E k \in 1..Len(app.trace) : app.trace[k] = Op("DestroySurface", 2)

(***************************************************************************)
(* Lifetime of the imported unit's objects (SpecCapture)                   *)
(***************************************************************************)
UnitKinds == {"gl_texture", "egl_image", "wl_buffer"}

\* the order in which ScreencopyDmabuf::new creates the objects of a unit
CreationRank(kind) ==
    CASE kind = "gl_texture" -> 1
      [] kind = "egl_image" -> 2
      [] kind = "wl_buffer" -> 3

\* C16: the GL texture, the platform image and the protocol buffer object of
\* a unit exist together or not at all: after an import, an invalidation by
\* a differing descriptor, a failed import or the teardown of the session,
\* either all three objects of a unit are alive or none of them is.
C16_UnitObjectsLiveTogether ==
    \A id \in 1..(sc.built + 1) :
        LET alive == {kind \in UnitKinds : <<kind, id>> \in sc.live}
        IN alive = {} \/ alive = UnitKinds

\* C17: the objects of a unit are destroyed in the reverse of their creation
\* order (protocol buffer object, platform image, GL texture), and none of
\* them is left alive when the session has been torn down.
C17_ReverseCreationOrder ==
    /\ \A p, q \in 1..Len(sc.destroyed) :
          (p < q /\ sc.destroyed[p][2] = sc.destroyed[q][2])
          => CreationRank(sc.destroyed[p][1]) > CreationRank(sc.destroyed[q][1])
    /\ sc.dropped => sc.live = {}

(***************************************************************************)
(* Missing managers                                                        *)
(***************************************************************************)

\* what main.rs and the two wayland modules say when a global is missing
UnavailableErrors ==
    {"screencopy manager is not available", "linux dmabuf is not available",
     "compositor is not available", "fractional scale manager is not available",
     "layer shell is not available", "viewporter is not available",
     "compositor is unavail", "layer shell is unavail",
     "fractional scale manager is unavail", "viewporter is unavail;"}

\* the import has everything it asks of EGL and reaches the manager lookup
ImportNeedsManager(descriptor, outcome) ==
    /\ descriptor.format = DRM_FORMAT_XRGB8888
    /\ outcome \in {"ok", "null_object"}

\* C18: a missing manager makes the operation that first needs it return an
\* "unavailable" error, never Ok: capture() without the screencopy manager
\* returns the error, issues no capture request and leaves the session as it
\* was; the import without the linux-dmabuf manager returns the error and
\* leaves no dmabuf; Overlay::new_boxed and overlay_all_screens without one of
\* their four globals return the error and no overlay is presented.
C18_MissingManagerIsAnError ==
    [][/\ (sc'.ev.kind = "capture_unavailable" /\ sc' # sc)
            => /\ sc'.ret = "screencopy manager is not available"
               /\ sc'.frames = sc.frames
               /\ sc'.state = sc.state
               /\ sc'.dmabuf = sc.dmabuf
               /\ sc'.dmabuf_desc = sc.dmabuf_desc
               /\ sc'.copies = sc.copies
       /\ (sc'.ev.kind = "capture" /\ sc' # sc)
            => sc.screencopy_manager /\ sc'.ret = ""
       /\ ~sc.linux_dmabuf => IsNone(sc'.dmabuf)
       /\ \A t \in Descriptors, outcome \in ImportOutcomes :
            LET r == ScreencopyDmabufNew(FALSE, t, outcome, 1)
            IN /\ r.kind # "ok"
               /\ ImportNeedsManager(t, outcome)
                    => r.kind = "err" /\ r.why = "linux dmabuf is not available"
       /\ \A globals \in [1..4 -> BOOLEAN] :
            LET o == NewBoxed(globals)
                first == CHOOSE k \in 1..5 :
                            /\ k <= 4 => ~globals[k]
                            /\ \A j \in 1..(k - 1) : globals[j]
            IN IF first = 5 THEN o.ret = ""
               ELSE /\ o.ret = <<"compositor is not available",
                                 "fractional scale manager is not available",
                                 "layer shell is not available",
                                 "viewporter is not available">>[first]
                    /\ ~o.viewport /\ IsNone(o.window)
       /\ \A n \in 0..MaxScreens, globals \in [1..4 -> BOOLEAN] :
            LET a == OverlayAllScreensIssue(CapturedApp(n, globals))
            IN (\E k \in 1..4 : ~globals[k])
                 => /\ a.pc = "overlay_err"
                    /\ ~Unwrap(a.result).ok
                    /\ Unwrap(a.result).msg \in UnavailableErrors
                    /\ \A i \in 1..Len(a.screens) : IsNone(a.screens[i].layer_surface)
      ]_vars

\* a capture() without the screencopy manager has returned
C18_Witness ==
    /\ ~sc.screencopy_manager
    /\ sc.ev.kind = "capture_unavailable"
    /\ sc.ret \in UnavailableErrors

(***************************************************************************)
(* Unsupported formats                                                     *)
(***************************************************************************)

\* C19: a negotiated format outside the supported set, or an export with a
\* plane count other than one, makes the import that detected it return an
\* error (an Err value, as for every other failure of the import); it does
\* not panic.
C19_UnsupportedFormatIsReturned ==
    [][(sc'.ev.kind = "buffer_done" /\ IsNone(sc.dmabuf) /\ IsSome(sc.dmabuf_desc))
         => \A outcome \in ImportOutcomes :
              LET descriptor == Unwrap(sc.dmabuf_desc)
                  r == ScreencopyDmabufNew(sc.linux_dmabuf, descriptor,
                                           outcome, sc.built + 1)
              IN (descriptor.format # DRM_FORMAT_XRGB8888 \/ outcome = "two_planes")
                   => r.kind = "err"
      ]_vars

(***************************************************************************)
(* The buffer-params request (SpecParams)                                  *)
(***************************************************************************)

\* C20: the buffer-params object receives, in this order, the exported file
\* descriptor, plane index 0, the offset, the stride, the high 32 bits of
\* the modifier and its low 32 bits, and high * 2^32 + low is the exported
\* modifier.
C20_ParamsArgumentsInOrder ==
    \A k \in 1..Len(params.reqs) :
        LET args == params.reqs[k].args
        IN /\ params.reqs[k].op = "add"
           /\ Len(args) = 6
           /\ args[1] = params.export.fd
           /\ args[2] = 0
           /\ args[3] = params.export.offset
           /\ args[4] = params.export.stride
           /\ args[5] = <<params.export.modifiers[1], params.export.modifiers[2]>>
           /\ args[6] = <<params.export.modifiers[3], params.export.modifiers[4]>>
           /\ Add64(Shl32(AsU64(args[5])), AsU64(args[6])) = params.export.modifiers

\* an export whose modifier has different, non-zero halves has been added
C20_Witness ==
    /\ Len(params.reqs) = 1
    /\ params.export.modifiers = <<255, 1, 0, LimbBase - 1>>
    /\ params.export.offset # 0

(***************************************************************************)
(* DrawBuffer (SpecDrawBuffer)                                             *)
(***************************************************************************)

\* C21: each call of push_rect_filled, push_rect_outlined or push_line
\* closes exactly one draw command: the number of draw commands grows by
\* exactly one per call.
C21_OneCommandPerPush ==
    [][(/\ draw_buffer'.calls = draw_buffer.calls + 1
        /\ draw_buffer'.ev \in {"push_rect_filled", "push_rect_outlined", "push_line"})
         => Len(draw_buffer'.draw_commands) = Len(draw_buffer.draw_commands) + 1
      ]_vars

\* C22: after every public push (a zero-area filled rectangle included)
\* pending_indices is 0 and nothing panicked, so clear() passes its assertion
\* and leaves vertices, indices and draw commands empty.
C22_NothingPendingAfterPush ==
    /\ draw_buffer.pending_indices = 0
    /\ draw_buffer.panic = ""
    /\ draw_buffer.ev = "clear"
         => /\ draw_buffer.vertices = <<>>
            /\ draw_buffer.indices = <<>>
            /\ draw_buffer.draw_commands = <<>>
    /\ \A k \in 1..Len(draw_buffer.draw_commands) :
         /\ draw_buffer.draw_commands[k].start_index < draw_buffer.draw_commands[k].end_index
         /\ draw_buffer.draw_commands[k].end_index <= Len(draw_buffer.indices)

\* a zero-area filled rectangle has been pushed
C22_Witness ==
    /\ draw_buffer.ev = "push_rect_filled"
    /\ Len(draw_buffer.vertices) = 4
    /\ \A k \in 1..4 : draw_buffer.vertices[k].position = Vec2(0, 0)
    /\ Len(draw_buffer.draw_commands) = 1
    /\ draw_buffer.pending_indices = 0

(***************************************************************************)
(* Size round trip (SpecConv)                                              *)
(***************************************************************************)
Abs(x) == IF x < 0 THEN 0 - x ELSE x

\* the round trip came back within one unit on each axis
WithinOne ==
    /\ Abs(Unwrap(conv.logical).width - conv.size.width) <= 1
    /\ Abs(Unwrap(conv.logical).height - conv.size.height) <= 1

\* C23 as stated: for every size and every scale n/120 with n >= 1,
\* to_physical then to_logical gives a size within 1 unit of the original on
\* each axis.
C23_RoundTripWithinOne ==
    IsSome(conv.logical) => WithinOne

\* C23 amended: the same for every scale n/120 with n >= 40 (a scale factor
\* of at least 1/3); below that to_physical loses more than the round trip
\* can give back.
C23_RoundTripWithinOneFrom40 ==
    (IsSome(conv.logical) /\ conv.scale >= 40) => WithinOne

\* a round trip at a fractional scale that does not come back exactly
C23_Witness ==
    /\ IsSome(conv.logical)
    /\ conv.scale = 41
    /\ Unwrap(conv.logical) # conv.size
    /\ WithinOne

(***************************************************************************)
(* Graphics-context creation (SpecEgl)                                     *)
(***************************************************************************)

\* C24: create uses the first config the platform returned; when the
\* platform returns no matching config it fails with the "no compatible
\* config" error, which carries no platform code and so differs from every
\* API failure, and CreateContext is never called.
C24_FirstConfigOrNoCompatible ==
    IsSome(egl_ctx.ret) =>
        LET ret == Unwrap(egl_ctx.ret)
            platform == egl_ctx.platform
            called(c) == \E k \in 1..Len(egl_ctx.calls) : egl_ctx.calls[k] = c
        IN /\ ret.ok => ret.value.config = platform.matching[1]
           /\ (called("ChooseConfig") /\ platform.fails # "ChooseConfig"
                 /\ platform.matching = <<>>)
                => /\ ~ret.ok
                   /\ ret.err.kind = "anyhow"
                   /\ ret.err.msg = "could not choose config (/ no compatible ones)"
                   /\ ~called("CreateContext")
           /\ (~ret.ok /\ ret.err.kind = "Raw")
                => /\ ret.err.raw = platform.code
                   /\ platform.fails = egl_ctx.calls[Len(egl_ctx.calls)]
                   /\ ret.err.msg # "could not choose config (/ no compatible ones)"
           /\ (~ret.ok /\ ret.err.kind = "anyhow") => platform.matching = <<>>

\* create has failed for lack of a matching config
C24_Witness ==
    /\ IsSome(egl_ctx.ret)
    /\ egl_ctx.platform.matching = <<>>
    /\ egl_ctx.platform.total = 1
    /\ ~Unwrap(egl_ctx.ret).ok
    /\ Unwrap(egl_ctx.ret).err.kind = "anyhow"

(***************************************************************************)
(* Shaders and programs (SpecGl)                                           *)
(***************************************************************************)

\* C25: a call of Shader::new or Program::new that fails returns the full
\* info log of the stage that failed, and no shader or program handle is
\* alive when it returns.
C25_FailureReleasesHandles ==
    (gl_objs.ev \in {"Shader::new", "Program::new"} /\ ~Unwrap(gl_objs.ret).ok)
        => /\ Unwrap(gl_objs.ret).err \in
                 {gl_objs.driver.log[st] : st \in DOMAIN gl_objs.driver.log}
           /\ gl_objs.live = {}

(***************************************************************************)
(* TexturePacker (SpecPacker)                                              *)
(***************************************************************************)
\* the entry a handle names
Region(handle) == packer.ntree[handle].value

\* the unused leaves of a tree
FreeLeaves(ntree) ==
    {k \in 1..Len(ntree) : IsLeaf(ntree, k) /\ ~ntree[k].value.in_use}

\* two entries share a point of positive area
Overlap(a, b) ==
    /\ a.x < b.x + b.w /\ b.x < a.x + a.w
    /\ a.y < b.y + b.h /\ b.y < a.y + a.h

\* C26: an insert(w, h) that succeeds returns a region of exactly w by h
\* that is in use and inside the texture; the full texture size inserted
\* into an empty packer returns the region at (0, 0) with the full size.
C26_InsertReturnsExactRegion ==
    packer.ev.op = "insert" =>
        /\ IsSome(packer.ret) =>
             LET e == Region(Unwrap(packer.ret))
             IN /\ e.w = packer.ev.width /\ e.h = packer.ev.height
                /\ e.in_use
                /\ e.x >= 0 /\ e.y >= 0
                /\ e.x + e.w <= packer.w /\ e.y + e.h <= packer.h
        /\ (packer.calls = 1 /\ packer.ev.width = packer.w /\ packer.ev.height = packer.h)
             => /\ IsSome(packer.ret)
                /\ Region(Unwrap(packer.ret)) =
                       TexturePackerEntry(0, 0, packer.w, packer.h, TRUE)

\* an insert smaller than the texture in both dimensions has succeeded
C26_Witness ==
    /\ packer.ev.op = "insert"
    /\ IsSome(packer.ret)
    /\ packer.ev.width < packer.w
    /\ packer.ev.height < packer.h
    /\ Region(Unwrap(packer.ret)).x > 0

\* C27: the regions returned by successful inserts have pairwise distinct
\* handles and do not overlap, and the space an insert leaves over stays
\* available: the unused leaves and the regions in use cover the texture, and
\* an insert that fits in an unused leaf succeeds.
C27_RegionsDisjointSpaceKept ==
    [][packer'.ev.op = "insert" =>
         /\ \A p, q \in 1..Len(packer'.returned) :
              p # q => /\ packer'.returned[p] # packer'.returned[q]
                       /\ ~Overlap(packer'.ntree[packer'.returned[p]].value,
                                   packer'.ntree[packer'.returned[q]].value)
         /\ \A p, q \in 1..Len(packer'.ntree) :
              (p # q /\ IsLeaf(packer'.ntree, p) /\ IsLeaf(packer'.ntree, q))
                => ~Overlap(packer'.ntree[p].value, packer'.ntree[q].value)
         /\ \A x \in 0..(packer.w - 1), y \in 0..(packer.h - 1) :
              \E k \in 1..Len(packer'.ntree) :
                 /\ IsLeaf(packer'.ntree, k)
                 /\ Overlap(packer'.ntree[k].value, TexturePackerEntry(x, y, 1, 1, FALSE))
         /\ (packer'.calls = packer.calls + 1
              /\ \E k \in FreeLeaves(packer.ntree) :
                    /\ packer'.ev.width <= packer.ntree[k].value.w
                    /\ packer'.ev.height <= packer.ntree[k].value.h)
              => IsSome(packer'.ret)
      ]_vars

\* a second insert has been placed in the space a split along x left over
C27_Witness ==
    /\ Len(packer.returned) = 2
    /\ Region(packer.returned[1]).x = 0
    /\ Region(packer.returned[2]).x = Region(packer.returned[1]).w
    /\ Region(packer.returned[2]).y = 0

\* C28: insert(w, h) returns a region if and only if some unused leaf is at
\* least w wide and h high; otherwise it returns None and leaves the
\* packer's regions as they were.
C28_InsertIffLeafFits ==
    [][packer'.calls = packer.calls + 1 =>
         /\ IsSome(packer'.ret) <=>
               \E k \in FreeLeaves(packer.ntree) :
                  /\ packer'.ev.width <= packer.ntree[k].value.w
                  /\ packer'.ev.height <= packer.ntree[k].value.h
         /\ IsNone(packer'.ret) => /\ packer'.ntree = packer.ntree
                                   /\ packer'.returned = packer.returned
      ]_vars

\* an insert that would fit the empty texture found no unused leaf to hold it
C28_Witness ==
    /\ packer.ev.op = "insert"
    /\ IsNone(packer.ret)
    /\ packer.ev.width <= packer.w
    /\ packer.ev.height <= packer.h
    /\ Len(packer.returned) >= 1

(***************************************************************************)
(* Copy requests (SpecCapture)                                             *)
(***************************************************************************)
\* a buffer_done event has been handled; what follows holds of the step
BufferDoneStep == sc'.ev.kind = "buffer_done" /\ sc' # sc

\* the unit is built by the step only if it was absent, and a unit that was
\* present is the one the session still holds
BuiltOnlyIfAbsent ==
    /\ sc'.built # sc.built => IsNone(sc.dmabuf)
    /\ IsSome(sc.dmabuf) => (sc'.dmabuf = sc.dmabuf /\ sc'.live = sc.live)

\* the step issued exactly one copy request, for the session's unit
OneCopyRequest ==
    /\ Len(sc'.copies) = Len(sc.copies) + 1
    /\ SubSeq(sc'.copies, 1, Len(sc.copies)) = sc.copies
    /\ IsSome(sc'.dmabuf)
    /\ sc'.copies[Len(sc'.copies)] = <<sc'.ev.frame, Unwrap(sc'.dmabuf).id>>
    /\ <<"wl_buffer", Unwrap(sc'.dmabuf).id>> \in sc'.live

CaptureSettled(i) ==
    \/ i > Len(app.screens)
    \/ /\ IsSome(app.screens[i].screencopy)
       /\ ScreenState(app, i) \in {"Ready", "Failed"}

\* capture_all_screens has returned Ok(()) or an Err
CaptureReturned == app.pc \notin {"start", "capture_scan", "capture_dispatch"}

\* the panics of the Configure arm (main.rs:873, 877, 894)
ConfigurePanics ==
    {"failed to create wl egl window", "failed to create egl window surface",
     "failed to draw"}

\* output i's overlay has received a configure event
OverlayConfigured(i) ==
    \/ i > Len(app.screens)
    \/ app.screens[i].layer_surface_configured
    \/ app.panic \in ConfigurePanics

\* main has called overlay_all_screens
OverlayCalled ==
    app.pc \in {"overlay_scan", "overlay_dispatch", "overlay_err", "main_dispatch"}

\* overlay_all_screens has returned Ok(()) or an Err
OverlayReturned == app.pc \in {"overlay_err", "main_dispatch"}

ScaleThenConfigure(n, size) ==
    HandleConfigure(HandlePreferredScale(OverlayNewBoxed, n, "ok"),
                    1, size.width, size.height, "ok")

\* one preferred-scale event and the first configure event have been
\* delivered, in some order, and the window surface exists
BothSignalsDelivered ==
    /\ ov.nscale = 1
    /\ ov.nconf = 1
    /\ ov.panic = ""
    /\ ov.ret = ""
    /\ ~ov.dropped
    /\ IsSome(ov.window_surface)

\* C31: after both a preferred-scale event and the first configure event
\* have been delivered, in either order, the overlay holds the same
\* fractional scale, the same logical size and a window surface of the same
\* physical size (those of the order scale, then configure).
C31_SignalsCommute ==
    BothSignalsDelivered =>
        LET e == ScaleThenConfigure(Unwrap(ov.fractional_scale), Unwrap(ov.logical_size))
        IN /\ ov.fractional_scale = e.fractional_scale
           /\ ov.logical_size = e.logical_size
           /\ Unwrap(ov.window).width = Unwrap(e.window).width
           /\ Unwrap(ov.window).height = Unwrap(e.window).height

(***************************************************************************)
(* Acknowledgment of configure events (SpecOverlay)                        *)
(***************************************************************************)
\* the requests the step has added to the overlay's log
NewReqs == SubSeq(ov'.reqs, Len(ov.reqs) + 1, Len(ov'.reqs))

\* C32: every configure event is acknowledged exactly once with the serial
\* it carried (the model numbers the configure events, the serial of the
\* k-th is k), and the acknowledgment is sent before the window surface is
\* created and before the commit made in response to the same configure.
C32_AckFirstWithSerial ==
    [][ov'.nconf = ov.nconf + 1 =>
         /\ Len(NewReqs) >= 1
         /\ NewReqs[1] = Req("ack_configure", ov'.nconf)
         /\ \A k \in 2..Len(NewReqs) : NewReqs[k].op # "ack_configure"
         /\ SubSeq(ov'.reqs, 1, Len(ov.reqs)) = ov.reqs
      ]_vars

\* the first configure has been acknowledged with serial 1 ahead of the
\* window creation and the commit, the second with serial 2
C32_Witness ==
    /\ ov.nconf = 2
    /\ ov.panic = ""
    /\ IsSome(ov.window_surface)
    /\ \E i, j, k, l \in 1..Len(ov.reqs) :
         /\ i < j /\ j < k /\ k < l
         /\ ov.reqs[i] = Req("ack_configure", 1)
         /\ ov.reqs[j].op = "CreateWindowSurface"
         /\ ov.reqs[k].op = "commit"
         /\ ov.reqs[l] = Req("ack_configure", 2)

(***************************************************************************)
(* A new_boxed that fails part-way (SpecOverlay)                           *)
(***************************************************************************)
\* the request that destroys the object a creation request made
DestroyRequest(op) ==
    CASE op = "create_surface" -> "wl_surface_destroy"
      [] op = "get_fractional_scale" -> "wp_fractional_scale_v1_destroy"
      [] op = "get_layer_surface" -> "zwlr_layer_surface_v1_destroy"
      [] op = "get_viewport" -> "wp_viewport_destroy"
      [] OTHER -> ""

\* the creation requests of the log whose object no later request destroys
AliveObjects(reqs) ==
    {reqs[k].op : k \in {j \in 1..Len(reqs) :
        /\ DestroyRequest(reqs[j].op) # ""
        /\ \A l \in (j + 1)..Len(reqs) : reqs[l].op # DestroyRequest(reqs[j].op)}}

\* C33: when Overlay::new_boxed returns an error because a later required
\* manager is unavailable, no protocol object created earlier in that call
\* is still alive, and no listener is left with a pointer to the abandoned
\* overlay storage (no event handler ever runs on it).
C33_FailedCreationLeavesNothing ==
    ov.ret \in UnavailableErrors =>
        /\ AliveObjects(ov.reqs) = {}
        /\ ~ov.surface
        /\ IsNone(ov.layer_surface)
        /\ ov.panic = ""

(***************************************************************************)
(* Handlers that address a screen by its index (SpecPresent)               *)
(***************************************************************************)
\* C34: every event handler that addresses per-output state by the index
\* captured when its protocol object was created finds that index inside
\* the per-output collection, for every ordering of events, including the
\* events delivered after a copy request has cleared the collection: no
\* handler indexes state.screens out of bounds.
C34_IndexInsideCollection == app.panic # "index out of bounds"

(***************************************************************************)
(* The draw path's unwraps (SpecPresent)                                   *)
(***************************************************************************)
\* what draw_screen unwraps (main.rs:499-502) is there for screen idx
DrawReady(a, idx) ==
    /\ IsSome(a.screens[idx].egl_window_surface)
    /\ IsSome(a.screens[idx].screencopy)
    /\ IsSome(Unwrap(a.screens[idx].screencopy).dmabuf)
    /\ IsSome(a.screens[idx].logical_size)

\* C35: whenever a frame is drawn for an output, from its configure
\* handler, a frame callback or a copy request, that output has an imported
\* captured texture, a window surface and a known logical size: no unwrap of
\* the draw path has failed, an output with a frame callback pending or with
\* a crop to copy has all three, and an output that can still be configured
\* has its captured texture (the configure handler stores the other two
\* itself before it draws).
C35_DrawPathUnwrapsHold ==
    /\ app.panic # "called Option::unwrap() on a None value"
    /\ \A idx \in 1..Len(app.screens) :
         /\ (app.screens[idx].callback \/ app.screens[idx].crop) => DrawReady(app, idx)
         /\ IsSome(app.screens[idx].layer_surface)
              => /\ IsSome(app.screens[idx].screencopy)
                 /\ IsSome(Unwrap(app.screens[idx].screencopy).dmabuf)

\* a copy request has drawn the cropped output, which its configure handler
\* had drawn before, and read it back
C35_Witness ==
    /\ app.copy
    /\ app.panic = ""
    /\ \E j, k \in 1..Len(app.trace) :
         /\ j < k
         /\ app.trace[j].op = "draw_screen"
         /\ app.trace[k].op = "read_pixels"

(***************************************************************************)
(* Draw commands and the index buffer (SpecDrawBuffer)                     *)
(***************************************************************************)
\* C36: in every reachable DrawBuffer state with pending_count == 0, the
\* draw commands partition the index buffer: the first command starts at
\* index 0, each command starts where the previous one ends, every command
\* is non-empty, and the last command ends at indices.len(); and every
\* stored index is smaller than vertices.len().
C36_CommandsPartitionIndices ==
    draw_buffer.pending_indices = 0 =>
        LET cmds == draw_buffer.draw_commands
            n == Len(cmds)
        IN /\ n = 0 => Len(draw_buffer.indices) = 0
           /\ n > 0 => /\ cmds[1].start_index = 0
                       /\ cmds[n].end_index = Len(draw_buffer.indices)
           /\ \A k \in 1..n : cmds[k].start_index < cmds[k].end_index
           /\ \A k \in 2..n : cmds[k].start_index = cmds[k - 1].end_index
           /\ \A k \in 1..Len(draw_buffer.indices) :
                /\ draw_buffer.indices[k] >= 0
                /\ draw_buffer.indices[k] < Len(draw_buffer.vertices)

\* an outlined rectangle (four commands) followed by a filled one
C36_Witness ==
    /\ draw_buffer.ev = "push_rect_filled"
    /\ draw_buffer.pending_indices = 0
    /\ Len(draw_buffer.draw_commands) = 5
    /\ Len(draw_buffer.indices) = 30
    /\ Len(draw_buffer.vertices) = 20

(***************************************************************************)
(* Claims about the crop selection.                                        *)
(***************************************************************************)
\* the last event was routed to screen i
CropRoutedTo(i) == crops.calls > 0 /\ crops.ev.screen_idx = i

CropsWithRect(screens) == {i \in 1..Len(screens) : IsSome(screens[i].crop_rect)}

\* C37: after any sequence of input events routed through
\* update_all_screens at most one screen has a crop rectangle, and whenever
\* the event changed the crop rectangle of the screen it was routed to, the
\* crop of every other screen is the empty default.
C37_AtMostOneCrop ==
    /\ Cardinality(CropsWithRect(crops.screens)) <= 1
    /\ \A i \in 1..MaxScreens :
         (CropRoutedTo(i) /\ crops.screens[i].crop_rect # crops.before[i].crop_rect)
             => \A other_idx \in 1..MaxScreens \ {i} :
                    crops.screens[other_idx] = CropDefault

\* an event gave its screen a crop rectangle while another screen had one,
\* and that other screen's crop is gone
C37_Witness ==
    \E i \in 1..MaxScreens, other_idx \in 1..MaxScreens :
        /\ other_idx # i
        /\ CropRoutedTo(i)
        /\ IsSome(crops.before[other_idx].crop_rect)
        /\ IsNone(crops.before[i].crop_rect)
        /\ IsSome(crops.screens[i].crop_rect)
        /\ crops.screens[other_idx] = CropDefault

\* min <= max on both axes, inside view_rect, at least one unit wide and high
CropRectSettled(rect, view_rect) ==
    /\ rect.min[1] <= rect.max[1] /\ rect.min[2] <= rect.max[2]
    /\ rect.min[1] >= view_rect.min[1] /\ rect.min[2] >= view_rect.min[2]
    /\ rect.max[1] <= view_rect.max[1] /\ rect.max[2] <= view_rect.max[2]
    /\ rect.max[1] - rect.min[1] >= MinCropExtent
    /\ rect.max[2] - rect.min[2] >= MinCropExtent

\* the last event was a pointer event of this kind, routed to screen i
CropPointerStep(i, kind) ==
    /\ CropRoutedTo(i)
    /\ crops.ev.event.type = "Pointer"
    /\ crops.ev.event.kind = kind

\* C38: after Crop::update handles a pointer release the active handle is
\* cleared and the crop rectangle is absent, or normalized, contained in the
\* view rectangle and at least 1 unit wide and high; a pointer press with no
\* crop, or outside the existing crop and its handles, starts a zero-size
\* crop at the pointer position dragged by its bottom-right handle.
C38_ReleaseSettlesPressStarts ==
    \A i \in 1..MaxScreens :
        LET c == crops.screens[i]
            prev == crops.before[i]
            position == crops.ev.event.position
        IN /\ CropPointerStep(i, "Release") =>
                /\ IsNone(c.handle)
                /\ IsSome(c.crop_rect) =>
                       CropRectSettled(Unwrap(c.crop_rect), Unwrap(c.view_rect))
           /\ (/\ CropPointerStep(i, "Press")
               /\ \/ IsNone(prev.crop_rect)
                  \/ /\ ~Contains(Unwrap(prev.crop_rect), position)
                     /\ \A x \in {Unwrap(prev.crop_rect).min[1], Unwrap(prev.crop_rect).max[1]},
                           y \in {Unwrap(prev.crop_rect).min[2], Unwrap(prev.crop_rect).max[2]} :
                            ~Contains(FromCenterSize(Vec2(x, y), HANDLE_SIZE), position))
              => /\ c.crop_rect = Some(Rect(position, position))
                 /\ c.handle = Some("BottomRight")

\* a release kept a crop that the drag had left inverted or outside the view
C38_Witness ==
    \E i \in 1..MaxScreens :
        /\ CropPointerStep(i, "Release")
        /\ IsSome(crops.before[i].crop_rect)
        /\ IsSome(crops.before[i].handle)
        /\ IsSome(crops.screens[i].crop_rect)
        /\ crops.screens[i].crop_rect # crops.before[i].crop_rect
        /\ IsNone(crops.screens[i].handle)

====
